---- MODULE Spec2Model ----
(***************************************************************************)
(* Model of the issue-backed object store client bundled in the extension  *)
(* (gh-store-client: IssueCache, minified class m, and GitHubStoreClient,  *)
(* minified class d) together with the issue tracker it talks to, of the   *)
(* paper manager on top of it, and of the reading-session tracking of the  *)
(* extension (SessionService, the content script and the message listener  *)
(* of the background script).                                              *)
(*                                                                         *)
(* Strings are sequences of tokens so that prefixing, startsWith and slice *)
(* are real sequence operations.  JSON values are tagged records; a text   *)
(* (issue body, comment body) is either the serialisation of a JSON value  *)
(* or a text that is not JSON.                                             *)
(***************************************************************************)
EXTENDS Integers, Sequences, FiniteSets, TLC

VARIABLES
    token,        \* GitHubStoreClient.token
    maxSize,      \* IssueCache.maxSize
    cache,        \* IssueCache.cache : Map id -> entry
    accessOrder,  \* IssueCache.accessOrder : most recent first
    issues,       \* the tracker: issue number n is issues[n]
    now,          \* Date.now()
    ret,          \* what the last step was and what it returned
    log,          \* per id: payload and returned version of the successful writes since createObject
    accessLog,    \* ids in order of last access (get hit or set), most recent first, never pruned
    disturbed,    \* a remove, a clear or a TTL eviction has happened
    refused,      \* how many requests the transport has refused so far
    calls,        \* the calls in flight: where each is and what it holds
    service,      \* the background script's SessionService
    timers,       \* the pending timers of the background script: timer id -> ms left
    sessions,     \* the sessions started, the ones ended and the ones handed to logReadingSession
    tabs          \* the content script of each tab and its messages in flight

vars == <<token, maxSize, cache, accessOrder, issues, now, ret, log, accessLog, disturbed, refused,
          calls, service, timers, sessions, tabs>>

----------------------------------------------------------------------------
(* Bounds *)

MaxTime == 2
TTL == 1
MaxCacheSize == 2
MaxIssues == 2
MaxComments == 3
MaxHistLen == 2
MaxReq == 6
MaxRefused == 1

----------------------------------------------------------------------------
(* Strings *)

Str(s) == <<s>>
EmptyStr == <<>>
Truthy(s) == s # <<>>
StartsWith(s, p) == Len(s) >= Len(p) /\ SubSeq(s, 1, Len(p)) = p
Slice(s, n) == SubSeq(s, n + 1, Len(s))

GH_STORE == Str("gh-store")
baseLabel == Str("stored-object")
uidPrefix == Str("UID:")
ARCHIVED == Str("archived")
reactionsMutant == [processed |-> "+1", initialState |-> "+1"]
reactions == [processed |-> "+1", initialState |-> "rocket"]

Ids == {Str("a"), Str("b")}
CacheIds == {EmptyStr, Str("a"), Str("b")}
CacheNumbers == {1, 2}

----------------------------------------------------------------------------
(* JSON values and texts *)

JNull == [t |-> "null"]
JNum(n) == [t |-> "num", v |-> n]
JStr(s) == [t |-> "str", v |-> s]
JArr(a) == [t |-> "arr", f |-> a]
JObj(o) == [t |-> "obj", f |-> o]
Undefined == [t |-> "undefined"]

\* typeof x in JavaScript
TypeOf(x) ==
    CASE x.t \in {"null", "arr", "obj"} -> "object"
      [] x.t = "num" -> "number"
      [] x.t = "str" -> "string"
      [] OTHER -> "undefined"

\* "k" in x : throws a TypeError when x is not an object (null, primitives)
CanIn(x) == x.t \in {"arr", "obj"}
In(k, x) == x.t = "obj" /\ k \in DOMAIN x.f
Field(x, k) == IF In(k, x) THEN x.f[k] ELSE Undefined
Falsy(x) == x.t \in {"null", "undefined"}
               \/ (x.t = "str" /\ x.v = "")
               \/ (x.t = "num" /\ x.v = 0)

\* JSON.stringify of a JSON value, and a text that is not JSON
JSONstringify(x) == [json |-> TRUE, val |-> x]
NotJson == [json |-> FALSE, val |-> JStr("not json")]
EmptyText == [json |-> FALSE, val |-> JStr("")]
\* JSON.parse : throws on a text that is not JSON
ParseOk(text) == text.json
JSONparse(text) == text.val

D0 == JObj([title |-> JStr("X")])
D1 == JObj([title |-> JStr("X"), rating |-> JStr("up")])
Data == {D0, D1}

----------------------------------------------------------------------------
(* IssueCache (class m).  c = [cache |-> Map, accessOrder |-> list] *)

removeFromAccessOrder(order, e) ==
    IF \E i \in 1..Len(order) : order[i] = e
    THEN LET t == CHOOSE i \in 1..Len(order) :
                     order[i] = e /\ \A j \in 1..(i - 1) : order[j] # e
         IN  SubSeq(order, 1, t - 1) \o SubSeq(order, t + 1, Len(order))
    ELSE order

updateAccessOrderMutant(order, e) == <<e>> \o order
updateAccessOrder(order, e) == <<e>> \o removeFromAccessOrder(order, e)

MapDelete(m, e) == [k \in (DOMAIN m) \ {e} |-> m[k]]
MapSet(m, e, v) == [k \in (DOMAIN m) \cup {e} |-> IF k = e THEN v ELSE m[k]]

\* Date.now() - t.lastAccessed > this.ttl
ExpiredMutant(entry) == now - entry.lastAccessed >= TTL
Expired(entry) == now - entry.lastAccessed > TTL

\* get(e): val = 0 stands for undefined
get(c, e) ==
    IF e \in DOMAIN c.cache
    THEN IF Expired(c.cache[e])
         THEN [c |-> [cache |-> MapDelete(c.cache, e),
                      accessOrder |-> removeFromAccessOrder(c.accessOrder, e)],
               val |-> 0]
         ELSE [c |-> [cache |-> [c.cache EXCEPT ![e].lastAccessed = now],
                      accessOrder |-> updateAccessOrder(c.accessOrder, e)],
               val |-> c.cache[e].issueNumber]
    ELSE [c |-> c, val |-> 0]

\* the eviction of set(): the tail of accessOrder, when it is truthy
evict(c, e) ==
    IF Cardinality(DOMAIN c.cache) >= maxSize /\ e \notin DOMAIN c.cache
    THEN IF Len(c.accessOrder) > 0 /\ Truthy(c.accessOrder[Len(c.accessOrder)])
         THEN LET s == c.accessOrder[Len(c.accessOrder)]
              IN  [cache |-> MapDelete(c.cache, s),
                   accessOrder |-> removeFromAccessOrder(c.accessOrder, s)]
         ELSE c
    ELSE c

setMutant(c, e, t, r) ==
    LET c1 == evict(c, e)
    IN  [cache |-> MapSet(c1.cache, e,
                          [issueNumber |-> t,
                           lastAccessed |-> IF e \in DOMAIN c.cache
                                            THEN c.cache[e].lastAccessed ELSE now,
                           createdAt |-> r.createdAt, updatedAt |-> r.updatedAt]),
         accessOrder |-> updateAccessOrder(c1.accessOrder, e)]

set(c, e, t, r) ==
    LET c1 == evict(c, e)
    IN  [cache |-> MapSet(c1.cache, e,
                          [issueNumber |-> t, lastAccessed |-> now,
                           createdAt |-> r.createdAt, updatedAt |-> r.updatedAt]),
         accessOrder |-> updateAccessOrder(c1.accessOrder, e)]

remove(c, e) ==
    [cache |-> MapDelete(c.cache, e),
     accessOrder |-> removeFromAccessOrder(c.accessOrder, e)]

clear(c) == [cache |-> <<>>, accessOrder |-> <<>>]

getStats(c) == [size |-> Cardinality(DOMAIN c.cache), maxSize |-> maxSize, ttl |-> TTL]

shouldRefreshMutant(c, e, t) ==
    IF e \in DOMAIN c.cache THEN t >= c.cache[e].updatedAt ELSE TRUE
shouldRefresh(c, e, t) ==
    IF e \in DOMAIN c.cache THEN t > c.cache[e].updatedAt ELSE TRUE

----------------------------------------------------------------------------
(* What a step returned.  Every step fills the same record. *)

NoData == Undefined

Ret0 ==
    [op |-> "init", id |-> EmptyStr, status |-> "ok", code |-> 0, nreq |-> 0,
     issueNumber |-> 0, version |-> 0, data |-> NoData, hist |-> <<>>,
     value |-> 0, age |-> -1, justCreated |-> NoData,
     queried |-> FALSE, refusedAt |-> 0, refusedCode |-> 0,
     arg |-> NoData, extra |-> {}, entries |-> <<>>, since |-> -1,
     nfetch |-> 0, nquery |-> 0, ncomments |-> 0, observed |-> -1, refresh |-> FALSE,
     paper |-> JNull, returned |-> JNull, tab |-> 0]
\* value: what the cache held for id when the call was made (0: nothing);
\* age: for cache.get, how long ago the entry was last accessed (-1: no entry);
\* justCreated: for getObject, the payload of the createObject of the same id that
\* succeeded in the step before (NoData: there was none);
\* queried: getObject issued its label query;
\* refusedAt, refusedCode: which request of the operation the transport answered
\* non-2xx, and with what status (0: none);
\* arg, extra: the payload and the extra labels a write was called with;
\* entries: the object listAll or listUpdatedSince returned, id -> Stored Object;
\* since: the timestamp listUpdatedSince was called with (-1: none);
\* nfetch, nquery, ncomments: for getObject, how many requests it sent for the
\* issue by number, for the issues by label, and for the comments of the issue;
\* observed, refresh: the timestamp shouldRefresh was called with and its answer;
\* paper, returned, tab: for a call of SessionService or a session message, the
\* paper it names, what the call returned, and the tab that sent the message

ThisCache == [cache |-> cache, accessOrder |-> accessOrder]

\* The calls in flight.  Each async method runs to its next await in one piece;
\* between the sending of a request and the arrival of its response other calls
\* run.  A frame holds the locals of one call: pc names the request it waits
\* for, ph says whether the server has answered it, resp is the answer.
Procs == {1, 2}

Frame0 ==
    [pc |-> "idle", ph |-> "none", id |-> EmptyStr, arg |-> NoData, n |-> 0,
     payload |-> NoData, resp |-> <<>>, status |-> "none", version |-> 0, data |-> NoData,
     number |-> 0]
\* n: the issue number updateObject resolved; number, data: the issue getObject
\* resolved and its parsed body; order: the comment requests in the order the
\* server received them, with the caller, the payload and whether the other
\* call was in flight then

NoCalls == [frame |-> [p \in Procs |-> Frame0], order |-> <<>>]

\* ids by last access, most recent first, with nothing ever pruned
Touch(al, e) == <<e>> \o removeFromAccessOrder(al, e)

\* SessionService as constructed: no session, no timer (0 stands for null), no
\* metadata; paperManager says whether a PaperManager was passed or null
Service0(paperManager) ==
    [activeSession |-> JNull, timeoutId |-> 0, paperMetadata |-> {},
     paperManager |-> paperManager]

\* started: how many sessions startSession has made; ended: the session data
\* of the sessions endSession has ended, with what ended them; handed: the
\* session data passed to logReadingSession
Sessions0 == [started |-> 0, ended |-> <<>>, handed |-> <<>>]

\* The content script of a tab: isTabVisible, currentSession, whether
\* heartbeatInterval is set.  msgs[t]: the messages tab t has sent that the
\* background script has not received yet; responses[t]: how many responses to
\* startSession messages are on their way back to tab t
TabIds == {1, 2}
Tab0 == [isTabVisible |-> TRUE, currentSession |-> JNull, heartbeatInterval |-> FALSE]
Tabs0 ==
    [tab |-> [t \in TabIds |-> Tab0], msgs |-> [t \in TabIds |-> <<>>],
     responses |-> [t \in TabIds |-> 0]]

----------------------------------------------------------------------------
(* Specification of the cache alone: the calls of IssueCache and the clock *)

CacheInit ==
    /\ token = JStr("tok")
    /\ maxSize \in 0..MaxCacheSize
    /\ cache = <<>>
    /\ accessOrder = <<>>
    /\ issues = <<>>
    /\ now = 0
    /\ ret = Ret0
    /\ log = [i \in Ids |-> <<>>]
    /\ accessLog = <<>>
    /\ disturbed = FALSE
    /\ refused = 0
    /\ calls = NoCalls
    /\ service = Service0(TRUE)
    /\ timers = <<>>
    /\ sessions = Sessions0
    /\ tabs = Tabs0

Tick ==
    /\ now < MaxTime
    /\ now' = now + 1
    /\ ret' = [Ret0 EXCEPT !.op = "tick"]
    /\ UNCHANGED <<service, timers, sessions, tabs, calls, token, maxSize, cache, accessOrder, issues, log, accessLog, disturbed, refused>>

CacheGet(e) ==
    LET g == get(ThisCache, e)
        hit == e \in DOMAIN cache
    IN  /\ cache' = g.c.cache
        /\ accessOrder' = g.c.accessOrder
        /\ ret' = [Ret0 EXCEPT !.op = "cache.get", !.id = e, !.value = g.val,
                               !.age = IF hit THEN now - cache[e].lastAccessed ELSE -1]
        /\ accessLog' = IF g.val # 0 THEN Touch(accessLog, e) ELSE accessLog
        /\ disturbed' = (disturbed \/ (hit /\ g.val = 0))
        /\ UNCHANGED <<service, timers, sessions, tabs, calls, token, maxSize, issues, now, log, refused>>

CacheSet(e, n) ==
    LET c == set(ThisCache, e, n, [createdAt |-> 0, updatedAt |-> now])
    IN  /\ cache' = c.cache
        /\ accessOrder' = c.accessOrder
        /\ ret' = [Ret0 EXCEPT !.op = "cache.set", !.id = e, !.value = n]
        /\ accessLog' = Touch(accessLog, e)
        /\ UNCHANGED <<service, timers, sessions, tabs, calls, token, maxSize, issues, now, log, disturbed, refused>>

CacheRemove(e) ==
    LET c == remove(ThisCache, e)
    IN  /\ cache' = c.cache
        /\ accessOrder' = c.accessOrder
        /\ ret' = [Ret0 EXCEPT !.op = "cache.remove", !.id = e]
        /\ disturbed' = TRUE
        /\ UNCHANGED <<service, timers, sessions, tabs, calls, token, maxSize, issues, now, log, accessLog, refused>>

CacheClear ==
    LET c == clear(ThisCache)
    IN  /\ cache' = c.cache
        /\ accessOrder' = c.accessOrder
        /\ ret' = [Ret0 EXCEPT !.op = "cache.clear"]
        /\ disturbed' = TRUE
        /\ UNCHANGED <<service, timers, sessions, tabs, calls, token, maxSize, issues, now, log, accessLog, refused>>

CacheNext ==
    \/ Tick
    \/ \E e \in CacheIds : CacheGet(e)
    \/ \E e \in CacheIds, n \in CacheNumbers : CacheSet(e, n)
    \/ \E e \in CacheIds : CacheRemove(e)
    \/ CacheClear

CacheSpec == CacheInit /\ [][CacheNext]_vars

\* shouldRefresh(e, t) reads the entry with Map.get and writes nothing
CacheShouldRefresh(e, t) ==
    /\ ret' = [Ret0 EXCEPT !.op = "cache.shouldRefresh", !.id = e, !.observed = t,
                           !.refresh = shouldRefresh(ThisCache, e, t)]
    /\ UNCHANGED <<service, timers, sessions, tabs, calls, token, maxSize, cache, accessOrder, issues, now, log, accessLog,
                   disturbed, refused>>

\* The cache asked whether what it holds is stale: entries are set at different
\* times, time passes, and shouldRefresh is called with observed timestamps
RefreshNext ==
    \/ Tick
    \/ \E e \in CacheIds : CacheSet(e, 1)
    \/ \E e \in CacheIds : CacheRemove(e)
    \/ \E e \in CacheIds, t \in 0..MaxTime : CacheShouldRefresh(e, t)

RefreshSpec == CacheInit /\ [][RefreshNext]_vars


----------------------------------------------------------------------------
(* The issue tracker, as the client's requests see it *)

y == "0.11.1"

IdLabelMutant(e) == e
IdLabel(e) == uidPrefix \o e

\* POST /issues : the new issue is open and has the next number
srvCreateIssue(iss, title, body, labels) ==
    Append(iss, [title |-> title, body |-> body, labels |-> labels, state |-> "open",
                 comments |-> <<>>, created_at |-> now, updated_at |-> now])

\* GET /issues?labels=..&state=.. : the issues that carry every label asked for,
\* in the tracker's default order (newest first), as issue numbers
RECURSIVE Newest(_, _)
Newest(S, n) ==
    IF n = 0 THEN <<>>
    ELSE IF n \in S THEN <<n>> \o Newest(S, n - 1) ELSE Newest(S, n - 1)

srvListIssues(iss, labels, state) ==
    Newest({n \in 1..Len(iss) :
                /\ labels \subseteq iss[n].labels
                /\ (state = "all" \/ iss[n].state = state)},
           Len(iss))

\* PATCH /issues/n {state}
srvPatchState(iss, n, state) ==
    [iss EXCEPT ![n].state = state, ![n].updated_at = now]

\* POST /issues/n/comments : comment ids are unique over the tracker
CommentId(n, k) == n * 10 + k

srvPostComment(iss, n, body) ==
    [iss EXCEPT ![n].comments =
                    Append(@, [id |-> CommentId(n, Len(@) + 1), body |-> body,
                               reactions |-> {}, created_at |-> now]),
                ![n].updated_at = now]

\* POST /issues/comments/id/reactions
srvPostReaction(iss, n, k, content) ==
    [iss EXCEPT ![n].comments[k].reactions = @ \cup {content}]

----------------------------------------------------------------------------
(* GitHubStoreClient (class d) *)

\* isPublic(): this.token === null
isPublic == token = JNull

\* !this.token
NoTokenMutant == token = JNull
NoToken == Falsy(token)

\* A request fails when it is the one the transport refuses: f.at counts the
\* requests of the operation, 0 is no failure, f.code is the status
Refused(f, k) == f.at = k

EnvelopeMutant(e, t, r, ts) ==
    JObj([_data |-> e,
          _meta |-> JObj([client_version |-> JStr(y), timestamp |-> JNum(ts),
                          update_mode |-> JStr("append"), issue_number |-> JNum(t)]),
          type |-> IF Falsy(r) THEN JStr("update") ELSE r])
Envelope(e, t, r, ts) ==
    LET meta == JObj([client_version |-> JStr(y), timestamp |-> JNum(ts),
                      update_mode |-> JStr("append"), issue_number |-> JNum(t)])
    IN  IF Falsy(r)
        THEN JObj([_data |-> e, _meta |-> meta])
        ELSE JObj([_data |-> e, _meta |-> meta, type |-> r])

createCommentPayloadMutant(e, t, r) == Envelope(e, t, Undefined, now)
createCommentPayload(e, t, r) == Envelope(e, t, r, now)

\* e.labels.some(s => r.has(s.name)) with r = {baseLabel, uidPrefix + id}
_verifyIssueLabelsIdOnly(issue, t) == IdLabel(t) \in issue.labels
_verifyIssueLabelsMutant(issue, t) == TRUE
_verifyIssueLabels(issue, t) ==
    issue.labels \cap {baseLabel, IdLabel(t)} # {}

_getVersionMutant(iss, n) == Len(iss[n].comments)
_getVersion(iss, n) == Len(iss[n].comments) + 1

\* the first label that is not the base label and starts with the prefix; labels are
\* kept in creation order [gh-store, baseLabel, UID:id, ...extra], a set is enough
\* while an issue has at most one such label
HasUidLabel(issue) ==
    \E l \in issue.labels : l # baseLabel /\ StartsWith(l, uidPrefix)
_getObjectIdFromLabels(issue) ==
    LET l == CHOOSE l \in issue.labels : l # baseLabel /\ StartsWith(l, uidPrefix)
    IN  Slice(l, Len(uidPrefix))

Result(c, status, code, nreq, n, version, data) ==
    [c |-> c, status |-> status, code |-> code, nreq |-> nreq,
     issueNumber |-> n, version |-> version, data |-> data]

\* getObject(e) on tracker iss and cache c; base requests were issued before it
getObject(iss, c, e, f, base) ==
    LET g == get(c, e)
        t == g.val
        hit == t # 0
        fetched == hit /\ ~Refused(f, base + 1) /\ t \in 1..Len(iss)
        verified == fetched /\ _verifyIssueLabels(iss[t], e)
        c1 == IF hit /\ ~verified THEN remove(g.c, e) ELSE g.c
        n1 == IF hit THEN 1 ELSE 0
        q == srvListIssues(iss, {GH_STORE, baseLabel, IdLabel(e)}, "closed")
        n2 == IF verified THEN n1 ELSE n1 + 1
        r == IF verified THEN t ELSE IF q # <<>> THEN q[1] ELSE 0
        queried == ~verified
    IN  [queried |-> queried, nfetch |-> n1, nquery |-> IF queried THEN 1 ELSE 0] @@
        IF ~verified /\ Refused(f, base + n2)
        THEN Result(c1, "TransportError", f.code, base + n2, 0, 0, NoData)
        ELSE IF ~verified /\ q = <<>>
        THEN Result(c1, "NotFound", 0, base + n2, 0, 0, NoData)
        ELSE IF iss[r].body = EmptyText
        THEN Result(c1, "InvalidIssue", 0, base + n2, r, 0, NoData)
        ELSE IF ~ParseOk(iss[r].body)
        THEN Result(c1, "DecodeError", 0, base + n2, r, 0, NoData)
        ELSE LET c2 == set(c1, e, r, [createdAt |-> iss[r].created_at,
                                       updatedAt |-> iss[r].updated_at])
             IN  IF Refused(f, base + n2 + 1)
                 THEN Result(c2, "TransportError", f.code, base + n2 + 1, r, 0, NoData)
                 ELSE Result(c2, "ok", 0, base + n2 + 1, r,
                             _getVersion(iss, r), JSONparse(iss[r].body))


\* what getObject(e) returns when res says it resolved issue res.issueNumber:
\* {meta:{objectId:e, label:uidPrefix+e, issueNumber, createdAt, updatedAt, version}, data}
StoredObject(iss, e, res) ==
    [meta |-> [objectId |-> e, label |-> IdLabel(e), issueNumber |-> res.issueNumber,
               createdAt |-> iss[res.issueNumber].created_at,
               updatedAt |-> iss[res.issueNumber].updated_at,
               version |-> res.version],
     data |-> res.data]

WResult(iss, res) == [iss |-> iss] @@ res

Title(e) == <<"Stored Object: ">> \o e

\* createObject(e, t, r): the requests are, in order, POST issue, POST comment,
\* POST reaction (processed), POST reaction (initialState), PATCH closed
createObject(iss, c, e, t, r, f) ==
    LET s == IdLabel(e)
        i == {GH_STORE, baseLabel, s} \cup r
        iss1 == srvCreateIssue(iss, Title(e), JSONstringify(t), i)
        a == Len(iss1)
        c1 == set(c, e, a, [createdAt |-> iss1[a].created_at,
                            updatedAt |-> iss1[a].updated_at])
        n == createCommentPayload(t, a, JStr("initial_state"))
        iss2 == srvPostComment(iss1, a, JSONstringify(n))
        iss3 == srvPostReaction(iss2, a, 1, reactions.processed)
        iss4 == srvPostReaction(iss3, a, 1, reactions.initialState)
        iss5 == srvPatchState(iss4, a, "closed")
        fail(k) == Result(c1, "TransportError", f.code, k, a, 0, NoData)
    IN  IF NoToken
        THEN WResult(iss, Result(c, "AuthRequired", 0, 0, 0, 0, NoData))
        ELSE IF Refused(f, 1)
        THEN WResult(iss, Result(c, "TransportError", f.code, 1, 0, 0, NoData))
        ELSE IF Refused(f, 2) THEN WResult(iss1, fail(2))
        ELSE IF Refused(f, 3) THEN WResult(iss2, fail(3))
        ELSE IF Refused(f, 4) THEN WResult(iss3, fail(4))
        ELSE IF Refused(f, 5) THEN WResult(iss4, fail(5))
        ELSE WResult(iss5, Result(c1, "ok", 0, 5, a, 1, t))

\* updateObject(e, t): label query over all states, POST comment, PATCH open,
\* then getObject(e)
UpdateLabelsMutant(e) == {baseLabel}
UpdateLabels(e) == {baseLabel, IdLabel(e)}

updateObjectMutant(iss, c, e, t, f) ==
    LET r == srvListIssues(iss, UpdateLabels(e), "all")
        s == r[1]
        i == createCommentPayload(t, s, Undefined)
        iss1 == srvPatchState(iss, s, "open")
        iss2 == srvPostComment(iss1, s, JSONstringify(i))
    IN  IF NoToken
        THEN WResult(iss, Result(c, "AuthRequired", 0, 0, 0, 0, NoData))
        ELSE IF Refused(f, 1)
        THEN WResult(iss, Result(c, "TransportError", f.code, 1, 0, 0, NoData))
        ELSE IF r = <<>>
        THEN WResult(iss, Result(c, "NotFound", 0, 1, 0, 0, NoData))
        ELSE IF Refused(f, 2)
        THEN WResult(iss, Result(c, "TransportError", f.code, 2, s, 0, NoData))
        ELSE IF Refused(f, 3)
        THEN WResult(iss1, Result(c, "TransportError", f.code, 3, s, 0, NoData))
        ELSE WResult(iss2, getObject(iss2, c, e, f, 3))
updateObject(iss, c, e, t, f) ==
    LET r == srvListIssues(iss, UpdateLabels(e), "all")
        s == r[1]
        i == createCommentPayload(t, s, Undefined)
        iss1 == srvPostComment(iss, s, JSONstringify(i))
        iss2 == srvPatchState(iss1, s, "open")
    IN  IF NoToken
        THEN WResult(iss, Result(c, "AuthRequired", 0, 0, 0, 0, NoData))
        ELSE IF Refused(f, 1)
        THEN WResult(iss, Result(c, "TransportError", f.code, 1, 0, 0, NoData))
        ELSE IF r = <<>>
        THEN WResult(iss, Result(c, "NotFound", 0, 1, 0, 0, NoData))
        ELSE IF Refused(f, 2)
        THEN WResult(iss, Result(c, "TransportError", f.code, 2, s, 0, NoData))
        ELSE IF Refused(f, 3)
        THEN WResult(iss1, Result(c, "TransportError", f.code, 3, s, 0, NoData))
        ELSE WResult(iss2, getObject(iss2, c, e, f, 3))

\* the decoding of one comment in getObjectHistory; ok = FALSE when the body of
\* the try block throws (JSON.parse, or "in" applied to null)
DecodeThrows(a) ==
    \/ ~ParseOk(a.body)
    \/ (TypeOf(JSONparse(a.body)) = "object" /\ ~CanIn(JSONparse(a.body)))

DecodeComment(a) ==
    LET n == JSONparse(a.body)
        type == IF TypeOf(n) = "object"
                THEN IF In("_data", n)
                     THEN (IF Falsy(Field(n, "type")) THEN JStr("update") ELSE Field(n, "type"))
                     ELSE IF In("type", n) /\ Field(n, "type") = JStr("initial_state")
                          THEN JStr("initial_state")
                          ELSE JStr("update")
                ELSE JStr("update")
        data == IF TypeOf(n) = "object"
                THEN IF In("_data", n) THEN Field(n, "_data")
                     ELSE IF In("type", n) /\ Field(n, "type") = JStr("initial_state")
                          THEN Field(n, "data")
                          ELSE n
                ELSE n
    IN  [timestamp |-> a.created_at, type |-> type, data |-> data, commentId |-> a.id]

RECURSIVE DecodeAll(_)
DecodeAll(s) ==
    IF s = <<>> THEN <<>>
    ELSE IF DecodeThrows(Head(s)) THEN DecodeAll(Tail(s))
    ELSE <<DecodeComment(Head(s))>> \o DecodeAll(Tail(s))

\* getObjectHistory(e): label query over all states, GET comments
getObjectHistory(iss, e, f) ==
    LET t == srvListIssues(iss, {baseLabel, IdLabel(e)}, "all")
        r == t[1]
    IN  IF Refused(f, 1)
        THEN [status |-> "TransportError", code |-> f.code, nreq |-> 1,
              issueNumber |-> 0, hist |-> <<>>]
        ELSE IF t = <<>>
        THEN [status |-> "NotFound", code |-> 0, nreq |-> 1, issueNumber |-> 0, hist |-> <<>>]
        ELSE IF Refused(f, 2)
        THEN [status |-> "TransportError", code |-> f.code, nreq |-> 2,
              issueNumber |-> r, hist |-> <<>>]
        ELSE [status |-> "ok", code |-> 0, nreq |-> 2, issueNumber |-> r,
              hist |-> DecodeAll(iss[r].comments)]

\* GET /issues?labels=..&state=..&since=t : what the since filter lets through is
\* the server's business: it keeps the issues updated at or after t, or it does
\* not filter at all
srvListIssuesSince(iss, labels, state, t, loose) ==
    LET page == srvListIssues(iss, labels, state)
    IN  IF loose THEN page
        ELSE SelectSeq(page, LAMBDA n : iss[n].updated_at >= t)

\* the Stored Object listAll and listUpdatedSince build for issue n: label is the
\* object id, as objectId is
ListEntry(iss, n) ==
    LET s == _getObjectIdFromLabels(iss[n])
    IN  [meta |-> [objectId |-> s, label |-> s, issueNumber |-> n,
                   createdAt |-> iss[n].created_at, updatedAt |-> iss[n].updated_at,
                   version |-> _getVersion(iss, n)],
         data |-> JSONparse(iss[n].body)]

\* the loop of listAll (since = -1) and of listUpdatedSince (since = e) over the
\* page: k requests were issued so far, t is the object built so far.  Whatever
\* throws inside the try block, the request of _getVersion included, skips the issue
RECURSIVE Collect(_, _, _, _, _, _)
Collect(iss, page, since, f, k, t) ==
    IF page = <<>> THEN [entries |-> t, nreq |-> k]
    ELSE LET n == Head(page)
             r == iss[n]
             rest == Tail(page)
         IN  IF ARCHIVED \in r.labels THEN Collect(iss, rest, since, f, k, t)
             ELSE IF ~HasUidLabel(r) THEN Collect(iss, rest, since, f, k, t)
             ELSE IF ~ParseOk(r.body) THEN Collect(iss, rest, since, f, k, t)
             ELSE IF since # -1 /\ ~(r.updated_at > since)
             THEN Collect(iss, rest, since, f, k, t)
             ELSE IF Refused(f, k + 1) THEN Collect(iss, rest, since, f, k + 1, t)
             ELSE Collect(iss, rest, since, f, k + 1,
                          MapSet(t, _getObjectIdFromLabels(r), ListEntry(iss, n)))

listAll(iss, f) ==
    LET e == srvListIssues(iss, {baseLabel}, "closed")
        res == Collect(iss, e, -1, f, 1, <<>>)
    IN  IF Refused(f, 1)
        THEN [status |-> "TransportError", code |-> f.code, nreq |-> 1, entries |-> <<>>]
        ELSE [status |-> "ok", code |-> 0, nreq |-> res.nreq, entries |-> res.entries]

listUpdatedSince(iss, e, loose, f) ==
    LET t == srvListIssuesSince(iss, {baseLabel}, "closed", e, loose)
        res == Collect(iss, t, e, f, 1, <<>>)
    IN  IF Refused(f, 1)
        THEN [status |-> "TransportError", code |-> f.code, nreq |-> 1, entries |-> <<>>]
        ELSE [status |-> "ok", code |-> 0, nreq |-> res.nreq, entries |-> res.entries]


----------------------------------------------------------------------------
(* Specification of the store client against the tracker *)

FailCodes == {500}
NoFailure == [at |-> 0, code |-> 0]
Failures == {NoFailure} \cup [at : 1..MaxReq, code : FailCodes]
Tokens == {JNull, Undefined, JStr(""), JStr("tok")}
ExtraLabels == {{}}
ExtraLabelSets == {{}, {Str("paper")}}

\* An object stored earlier, by another client instance: a successful createObject
PriorIssue(e, t) ==
    [title |-> Title(e), body |-> JSONstringify(t),
     labels |-> {GH_STORE, baseLabel, IdLabel(e)}, state |-> "closed",
     comments |-> <<[id |-> CommentId(1, 1),
                     body |-> JSONstringify(Envelope(t, 1, JStr("initial_state"), 0)),
                     reactions |-> {reactions.processed, reactions.initialState},
                     created_at |-> 0]>>,
     created_at |-> 0, updated_at |-> 0]

Init ==
    /\ token \in Tokens
    /\ maxSize \in 1..MaxCacheSize
    /\ cache = <<>>
    /\ accessOrder = <<>>
    /\ issues \in IF token = JStr("tok") THEN {<<>>} ELSE {<<>>, <<PriorIssue(Str("a"), D0)>>}
    /\ now = 0
    /\ ret = Ret0
    /\ log = [i \in Ids |-> <<>>]
    /\ accessLog = <<>>
    /\ disturbed = FALSE
    /\ refused = 0
    /\ calls = NoCalls
    /\ service = Service0(TRUE)
    /\ timers = <<>>
    /\ sessions = Sessions0
    /\ tabs = Tabs0

RECURSIVE NumComments(_)
NumComments(iss) ==
    IF iss = <<>> THEN 0 ELSE Len(Head(iss).comments) + NumComments(Tail(iss))

\* The transport refuses request f.at of the operation when the operation gets that
\* far; a refusal that the operation never reaches is no input at all
Refusal(f, res) ==
    /\ f.at # 0 => (refused < MaxRefused /\ f.at <= res.nreq)
    /\ refused' = IF f.at # 0 THEN refused + 1 ELSE refused

StoreRet(op, e, res, f) ==
    [Ret0 EXCEPT !.op = op, !.id = e, !.status = res.status, !.code = res.code,
                 !.nreq = res.nreq, !.issueNumber = res.issueNumber,
                 !.version = res.version, !.data = res.data,
                 !.refusedAt = f.at, !.refusedCode = f.code]

GetObject(e, f) ==
    \E res \in {getObject(issues, ThisCache, e, f, 0)} :
        /\ Refusal(f, res)
        /\ cache' = res.c.cache
        /\ accessOrder' = res.c.accessOrder
        /\ ret' = [StoreRet("getObject", e, res, f) EXCEPT
                      !.value = get(ThisCache, e).val,
                      !.queried = res.queried,
                      !.nfetch = res.nfetch,
                      !.nquery = res.nquery,
                      !.ncomments = res.nreq - res.nfetch - res.nquery,
                      !.justCreated = IF ret.op = "createObject" /\ ret.status = "ok" /\ ret.id = e
                                      THEN ret.data ELSE NoData]
        /\ UNCHANGED <<service, timers, sessions, tabs, calls, token, maxSize, issues, now, log, accessLog, disturbed>>

CreateObject(e, t, r, f) ==
    /\ Len(issues) < MaxIssues
    /\ NumComments(issues) < MaxComments
    /\ \E res \in {createObject(issues, ThisCache, e, t, r, f)} :
        /\ Refusal(f, res)
        /\ issues' = res.iss
        /\ cache' = res.c.cache
        /\ accessOrder' = res.c.accessOrder
        /\ ret' = [StoreRet("createObject", e, res, f) EXCEPT !.arg = t, !.extra = r]
        /\ log' = [log EXCEPT ![e] = IF res.status = "ok" THEN <<[d |-> t, v |-> res.version]>>
                                     ELSE IF res.iss # issues THEN <<>> ELSE @]
        /\ UNCHANGED <<service, timers, sessions, tabs, calls, token, maxSize, now, accessLog, disturbed>>

UpdateObject(e, t, f) ==
    /\ NumComments(issues) < MaxComments
    /\ \E res \in {updateObject(issues, ThisCache, e, t, f)} :
        /\ Refusal(f, res)
        /\ issues' = res.iss
        /\ cache' = res.c.cache
        /\ accessOrder' = res.c.accessOrder
        /\ ret' = [StoreRet("updateObject", e, res, f) EXCEPT !.arg = t]
        /\ log' = [log EXCEPT ![e] = IF res.status = "ok" /\ @ # <<>>
                                     THEN Append(@, [d |-> t, v |-> res.version])
                                     ELSE IF res.iss # issues THEN <<>> ELSE @]
        /\ UNCHANGED <<service, timers, sessions, tabs, calls, token, maxSize, now, accessLog, disturbed>>

GetObjectHistory(e, f) ==
    \E res \in {getObjectHistory(issues, e, f)} :
        /\ Refusal(f, res)
        /\ ret' = [Ret0 EXCEPT !.op = "getObjectHistory", !.id = e, !.status = res.status,
                               !.code = res.code, !.nreq = res.nreq,
                               !.issueNumber = res.issueNumber, !.hist = res.hist,
                               !.refusedAt = f.at, !.refusedCode = f.code]
        /\ UNCHANGED <<service, timers, sessions, tabs, calls, token, maxSize, cache, accessOrder, issues, now, log, accessLog, disturbed>>

\* The external reconciler re-closes an open issue
Reconcile(n) ==
    /\ issues[n].state = "open"
    /\ issues' = srvPatchState(issues, n, "closed")
    /\ ret' = [Ret0 EXCEPT !.op = "reconcile", !.issueNumber = n]
    /\ UNCHANGED <<service, timers, sessions, tabs, calls, token, maxSize, cache, accessOrder, now, log, accessLog, disturbed, refused>>

\* Someone edits the labels of an issue in the tracker: its ID label becomes that of e
Relabel(n, e) ==
    /\ IdLabel(e) \notin issues[n].labels
    /\ issues' = [issues EXCEPT ![n].labels =
                       {l \in @ : ~StartsWith(l, uidPrefix)} \cup {IdLabel(e)}]
    /\ ret' = [Ret0 EXCEPT !.op = "relabel", !.id = e, !.issueNumber = n]
    /\ log' = [i \in Ids |-> <<>>]
    /\ UNCHANGED <<service, timers, sessions, tabs, calls, token, maxSize, cache, accessOrder, now, accessLog, disturbed, refused>>

\* A new client instance on the same tracker: the constructor makes an empty cache
Restart ==
    /\ cache # <<>>
    /\ cache' = <<>>
    /\ accessOrder' = <<>>
    /\ ret' = [Ret0 EXCEPT !.op = "restart"]
    /\ UNCHANGED <<service, timers, sessions, tabs, calls, token, maxSize, issues, now, log, accessLog, disturbed, refused>>

\* The operations of the client with the transport answering requests from F
Operations(F) ==
    \/ \E e \in Ids, f \in F : GetObject(e, f)
    \/ \E e \in Ids, t \in Data, r \in ExtraLabels, f \in F : CreateObject(e, t, r, f)
    \/ \E e \in Ids, t \in Data, f \in F : UpdateObject(e, t, f)
    \/ \E e \in Ids, f \in F : GetObjectHistory(e, f)

\* Every request is answered 2xx
Next ==
    \/ Operations({NoFailure})
    \/ \E n \in 1..Len(issues) : Reconcile(n)
    \/ Restart

Spec == Init /\ [][Next]_vars

\* The transport may refuse requests
FaultNext ==
    \/ Operations(Failures)
    \/ \E n \in 1..Len(issues) : Reconcile(n)
    \/ Restart

FaultSpec == Init /\ [][FaultNext]_vars


----------------------------------------------------------------------------
(* Specification of creation under transport failures: objects are created  *)
(* while the transport may refuse any request of createObject, the          *)
(* reconciler closes what was left open, and the client may be restarted    *)

CreateNext ==
    \/ \E e \in Ids, t \in Data, r \in ExtraLabelSets, f \in Failures : CreateObject(e, t, r, f)
    \/ \E n \in 1..Len(issues) : Reconcile(n)
    \/ Restart

CreateSpec == Init /\ [][CreateNext]_vars

----------------------------------------------------------------------------
(* Specification of the store client while time passes: cache entries age   *)
(* and expire between the operations                                        *)

TimedNext ==
    \/ \E e \in Ids : GetObject(e, NoFailure)
    \/ \E e \in Ids : CreateObject(e, D0, {}, NoFailure)
    \/ \E e \in Ids : UpdateObject(e, D1, NoFailure)
    \/ \E n \in 1..Len(issues) : Reconcile(n)
    \/ Tick

TimedSpec == Init /\ [][TimedNext]_vars

----------------------------------------------------------------------------
(* Specification of the reads under label edits: objects are created, their *)
(* labels are edited in the tracker, and the client reads them              *)

LabelNext ==
    \/ \E e \in Ids : GetObject(e, NoFailure)
    \/ \E e \in Ids, t \in Data, r \in ExtraLabels : CreateObject(e, t, r, NoFailure)
    \/ \E n \in 1..Len(issues), e \in Ids : Relabel(n, e)

LabelSpec == Init /\ [][LabelNext]_vars

----------------------------------------------------------------------------
(* Specification of updates under transport failures: objects are created,  *)
(* the transport may refuse the label query, the comment or the state       *)
(* change of an update, and the reconciler closes what was opened           *)

UpdateFailures == {NoFailure} \cup [at : 1..3, code : FailCodes]

UpdateFaultNext ==
    \/ \E e \in Ids : CreateObject(e, D0, {}, NoFailure)
    \/ \E e \in Ids, t \in Data, f \in UpdateFailures : UpdateObject(e, t, f)
    \/ \E n \in 1..Len(issues) : Reconcile(n)

UpdateFaultSpec == Init /\ [][UpdateFaultNext]_vars

----------------------------------------------------------------------------
(* Specification of the reads when the cached issue is no longer the object: *)
(* objects are created, the labels of their issues are edited or removed in *)
(* the tracker, the transport may refuse a request, and the client reads    *)

\* Someone removes the stored-object label of an issue in the tracker
Unlabel(n) ==
    /\ baseLabel \in issues[n].labels
    /\ issues' = [issues EXCEPT ![n].labels = @ \ {baseLabel}]
    /\ ret' = [Ret0 EXCEPT !.op = "unlabel", !.issueNumber = n]
    /\ log' = [i \in Ids |-> <<>>]
    /\ UNCHANGED <<service, timers, sessions, tabs, calls, token, maxSize, cache, accessOrder, now, accessLog, disturbed, refused>>

\* the transport answers every request, or refuses the first one of a read
FirstRefused == {NoFailure} \cup [at : {1}, code : FailCodes]

VerifyNext ==
    \/ \E e \in Ids, f \in FirstRefused : GetObject(e, f)
    \/ \E e \in Ids : CreateObject(e, D0, {}, NoFailure)
    \/ \E n \in 1..Len(issues), e \in Ids : Relabel(n, e)
    \/ \E n \in 1..Len(issues) : Unlabel(n)

VerifySpec == Init /\ [][VerifyNext]_vars

----------------------------------------------------------------------------
(* Specification of the reads of a client that also stores an object under  *)
(* the empty id: the id is an opaque string of the caller                   *)

OpaqueIds == {EmptyStr, Str("a")}

OpaqueNext ==
    \/ \E e \in OpaqueIds, f \in FirstRefused : GetObject(e, f)
    \/ \E e \in OpaqueIds : CreateObject(e, D0, {}, NoFailure)

OpaqueSpec == Init /\ [][OpaqueNext]_vars

----------------------------------------------------------------------------
(* Specification of the paper manager on the store client: papers and their *)
(* interaction logs are fetched or created, the reconciler closes what was  *)
(* forced open, time passes and the client may be restarted                 *)

\* `${this.id}.${paperId}` and `${type}:${this.formatPaperId(paperId)}`
formatPaperId(sourceId, paperId) == <<sourceId, ".", paperId>>
formatObjectId(type, sourceId, paperId) == <<type, ":">> \o formatPaperId(sourceId, paperId)

SourceIds == {"arxiv"}
PaperIds == {"1", "2"}
Ratings == {JStr(""), JStr("up")}

\* the paper data a caller passes in
PaperMetadata(sourceId, paperId, rating) ==
    JObj([sourceId |-> JStr(sourceId), paperId |-> JStr(paperId), title |-> JStr("X"),
          rating |-> rating])

\* {...paperData, timestamp: new Date().toISOString(), rating: paperData.rating || 'novote'}
defaultPaperData(paperData) ==
    JObj([k \in DOMAIN paperData.f \cup {"timestamp", "rating"} |->
             IF k = "timestamp" THEN JStr(ToString(now))
             ELSE IF k = "rating"
                  THEN IF Falsy(Field(paperData, "rating")) THEN JStr("novote")
                       ELSE Field(paperData, "rating")
                  ELSE paperData.f[k]])

isInteractionLog(data) ==
    /\ TypeOf(data) = "object"
    /\ data # JNull
    /\ TypeOf(Field(data, "sourceId")) = "string"
    /\ TypeOf(Field(data, "paperId")) = "string"
    /\ Field(data, "interactions").t = "arr"

MResult(iss, c, status, n, data, created) ==
    [iss |-> iss, c |-> c, status |-> status, issueNumber |-> n, data |-> data,
     created |-> created]

\* getOrCreatePaper(paperData): getObject; on 'No object found' createObject and
\* PATCH the new issue open; every other error is rethrown
getOrCreatePaper(iss, c, paperData) ==
    LET objectId == formatObjectId("paper", paperData.f.sourceId.v, paperData.f.paperId.v)
        g == getObject(iss, c, objectId, NoFailure, 0)
        d == defaultPaperData(paperData)
        newobj == createObject(iss, g.c, objectId, d, {}, NoFailure)
    IN  IF g.status = "ok"
        THEN MResult(iss, g.c, "ok", g.issueNumber, g.data, FALSE)
        ELSE IF g.status = "NotFound"
        THEN IF newobj.status = "ok"
             THEN MResult(srvPatchState(newobj.iss, newobj.issueNumber, "open"), newobj.c,
                          "ok", newobj.issueNumber, d, TRUE)
             ELSE MResult(newobj.iss, newobj.c, newobj.status, 0, NoData, FALSE)
        ELSE MResult(iss, g.c, g.status, g.issueNumber, NoData, FALSE)

\* getOrCreateInteractionLog(sourceId, paperId): getObject; a stored value that is
\* no interaction log is an error; on 'No object found' createObject
getOrCreateInteractionLog(iss, c, sourceId, paperId) ==
    LET objectId == formatObjectId("interactions", sourceId, paperId)
        g == getObject(iss, c, objectId, NoFailure, 0)
        newLog == JObj([sourceId |-> JStr(sourceId), paperId |-> JStr(paperId),
                        interactions |-> JArr(<<>>)])
        newobj == createObject(iss, g.c, objectId, newLog, {}, NoFailure)
    IN  IF g.status = "ok"
        THEN IF isInteractionLog(g.data)
             THEN MResult(iss, g.c, "ok", g.issueNumber, g.data, FALSE)
             ELSE MResult(iss, g.c, "InvalidLog", g.issueNumber, NoData, FALSE)
        ELSE IF g.status = "NotFound"
        THEN IF newobj.status = "ok"
             THEN MResult(newobj.iss, newobj.c, "ok", newobj.issueNumber, newLog, TRUE)
             ELSE MResult(newobj.iss, newobj.c, newobj.status, 0, NoData, FALSE)
        ELSE MResult(iss, g.c, g.status, g.issueNumber, NoData, FALSE)

\* the manager is built on a client that has a token
PaperInit ==
    /\ token = JStr("tok")
    /\ maxSize \in 1..MaxCacheSize
    /\ cache = <<>>
    /\ accessOrder = <<>>
    /\ issues = <<>>
    /\ now = 0
    /\ ret = Ret0
    /\ log = [i \in Ids |-> <<>>]
    /\ accessLog = <<>>
    /\ disturbed = FALSE
    /\ refused = 0
    /\ calls = NoCalls
    /\ service = Service0(TRUE)
    /\ timers = <<>>
    /\ sessions = Sessions0
    /\ tabs = Tabs0

ManagerStep(op, e, res) ==
    /\ res.created => (Len(issues) < MaxIssues /\ NumComments(issues) < MaxComments)
    /\ issues' = res.iss
    /\ cache' = res.c.cache
    /\ accessOrder' = res.c.accessOrder
    /\ ret' = [Ret0 EXCEPT !.op = op, !.id = e, !.status = res.status,
                           !.issueNumber = res.issueNumber, !.data = res.data,
                           !.value = get(ThisCache, e).val]
    /\ UNCHANGED <<service, timers, sessions, tabs, calls, token, maxSize, now, log, accessLog, disturbed, refused>>

GetOrCreatePaper(sourceId, paperId, rating) ==
    \E res \in {getOrCreatePaper(issues, ThisCache, PaperMetadata(sourceId, paperId, rating))} :
        ManagerStep("getOrCreatePaper", formatObjectId("paper", sourceId, paperId), res)

GetOrCreateInteractionLog(sourceId, paperId) ==
    \E res \in {getOrCreateInteractionLog(issues, ThisCache, sourceId, paperId)} :
        ManagerStep("getOrCreateInteractionLog",
                    formatObjectId("interactions", sourceId, paperId), res)

PaperNext ==
    \/ \E s \in SourceIds, q \in PaperIds, r \in Ratings : GetOrCreatePaper(s, q, r)
    \/ \E s \in SourceIds, q \in PaperIds : GetOrCreateInteractionLog(s, q)
    \/ \E n \in 1..Len(issues) : Reconcile(n)
    \/ Tick
    \/ Restart

PaperSpec == PaperInit /\ [][PaperNext]_vars

----------------------------------------------------------------------------
(* Specification of the interaction log of a paper: interactions are added  *)
(* one call after the other, the reconciler closes what an update opened    *)
(* and time passes.  log holds, per log object, the payloads that the       *)
(* addInteraction calls that completed wrote                                *)

\* the interactions a caller passes: {type, timestamp, data}
Interaction(type) ==
    JObj([type |-> JStr(type), timestamp |-> JStr(ToString(now)), data |-> JObj(<<>>)])
InteractionTypes == {"rating", "annotation"}
LogIds == {formatObjectId("interactions", s, q) : s \in SourceIds, q \in {"1"}}

\* log.interactions.push(interaction)
push(l, interaction) ==
    JObj([l.f EXCEPT !.interactions = JArr(Append(@.f, interaction))])

\* addInteraction(sourceId, paperId, interaction): getOrCreateInteractionLog, push,
\* updateObject of the whole log; whatever throws is thrown on
addInteraction(iss, c, sourceId, paperId, interaction) ==
    LET objectId == formatObjectId("interactions", sourceId, paperId)
        update(l) ==
            LET written == push(l.data, interaction)
            IN  CHOOSE r \in {[iss |-> u.iss, c |-> u.c, status |-> u.status,
                               written |-> written] :
                                 u \in {updateObject(l.iss, l.c, objectId, written, NoFailure)}} :
                    TRUE
        after(l) ==
            IF l.status # "ok"
            THEN [iss |-> l.iss, c |-> l.c, status |-> l.status, written |-> NoData]
            ELSE update(l)
    IN  CHOOSE r \in {after(l) : l \in {getOrCreateInteractionLog(iss, c, sourceId, paperId)}} :
            TRUE

InteractionInit ==
    /\ token = JStr("tok")
    /\ maxSize \in 1..MaxCacheSize
    /\ cache = <<>>
    /\ accessOrder = <<>>
    /\ issues = <<>>
    /\ now = 0
    /\ ret = Ret0
    /\ log = [i \in LogIds |-> <<>>]
    /\ accessLog = <<>>
    /\ disturbed = FALSE
    /\ refused = 0
    /\ calls = NoCalls
    /\ service = Service0(TRUE)
    /\ timers = <<>>
    /\ sessions = Sessions0
    /\ tabs = Tabs0

AddInteraction(sourceId, paperId, type) ==
    \E res \in {addInteraction(issues, ThisCache, sourceId, paperId, Interaction(type))} :
        /\ Len(res.iss) <= MaxIssues
        /\ NumComments(res.iss) <= MaxComments
        /\ issues' = res.iss
        /\ cache' = res.c.cache
        /\ accessOrder' = res.c.accessOrder
        /\ ret' = [Ret0 EXCEPT !.op = "addInteraction",
                               !.id = formatObjectId("interactions", sourceId, paperId),
                               !.status = res.status, !.arg = Interaction(type)]
        /\ log' = IF res.status = "ok"
                  THEN [log EXCEPT ![formatObjectId("interactions", sourceId, paperId)] =
                                      Append(@, [d |-> res.written, v |-> 0])]
                  ELSE log
        /\ UNCHANGED <<service, timers, sessions, tabs, calls, token, maxSize, now, accessLog, disturbed, refused>>

InteractionNext ==
    \/ \E s \in SourceIds, q \in {"1"}, t \in InteractionTypes : AddInteraction(s, q, t)
    \/ \E n \in 1..Len(issues) : Reconcile(n)
    \/ Tick

InteractionSpec == InteractionInit /\ [][InteractionNext]_vars

----------------------------------------------------------------------------
(* Specification of overlapping updates: updateObject calls run request by  *)
(* request, and between the sending of a request and the continuation that  *)
(* follows its response the other call, the reconciler and reads may run    *)

Running(p) == calls.frame[p].pc \notin {"idle", "done"}

SetFrame(p, fr) == [calls EXCEPT !.frame[p] = fr]

Done(fr, status) == [fr EXCEPT !.pc = "done", !.ph = "none", !.status = status, !.resp = <<>>]

Send(fr, pc) == [fr EXCEPT !.pc = pc, !.ph = "wait", !.resp = <<>>]

StepRet == [Ret0 EXCEPT !.op = "step"]

\* updateObject(e, t) up to its first await: the token test and the label query
UCall(p, e, t) ==
    /\ ~Running(p)
    /\ NumComments(issues)
          + Cardinality({q \in Procs : calls.frame[q].pc \in {"u_query", "u_comment"}})
          < MaxComments
    /\ calls' = SetFrame(p, IF NoToken
                            THEN Done([Frame0 EXCEPT !.id = e, !.arg = t], "AuthRequired")
                            ELSE Send([Frame0 EXCEPT !.id = e, !.arg = t], "u_query"))
    /\ ret' = StepRet
    /\ UNCHANGED <<service, timers, sessions, tabs, token, maxSize, cache, accessOrder, issues, now, log, accessLog, disturbed,
                   refused>>

\* what the server answers to the request call p waits for, and what it does
IssueList(q) == [nums |-> q, snap |-> IF q = <<>> THEN <<>> ELSE <<issues[q[1]]>>, count |-> 0]

Serve(p) ==
    LET fr == calls.frame[p]
        answer(r) == [fr EXCEPT !.ph = "ready", !.resp = r]
    IN  /\ fr.ph = "wait"
        /\ ret' = StepRet
        /\ \/ /\ fr.pc = "u_query"
              /\ calls' = SetFrame(p, answer(IssueList(
                               srvListIssues(issues, UpdateLabels(fr.id), "all"))))
              /\ UNCHANGED issues
           \/ /\ fr.pc = "u_comment"
              /\ issues' = srvPostComment(issues, fr.n, JSONstringify(fr.payload))
              /\ calls' = [SetFrame(p, answer(<<>>)) EXCEPT
                              !.order = Append(@, [p |-> p, arg |-> fr.arg, n |-> fr.n,
                                                   overlap |-> \E q \in Procs \ {p} : Running(q)])]
           \/ /\ fr.pc = "u_open"
              /\ issues' = srvPatchState(issues, fr.n, "open")
              /\ calls' = SetFrame(p, answer(<<>>))
           \/ /\ fr.pc = "g_fetch"
              /\ calls' = SetFrame(p, answer(IssueList(
                               IF fr.number \in 1..Len(issues) THEN <<fr.number>> ELSE <<>>)))
              /\ UNCHANGED issues
           \/ /\ fr.pc = "g_query"
              /\ calls' = SetFrame(p, answer(IssueList(
                               srvListIssues(issues, {GH_STORE, baseLabel, IdLabel(fr.id)},
                                             "closed"))))
              /\ UNCHANGED issues
           \/ /\ fr.pc = "g_version"
              /\ calls' = SetFrame(p, answer([nums |-> <<>>, snap |-> <<>>,
                                              count |-> Len(issues[fr.number].comments)]))
              /\ UNCHANGED issues
        /\ UNCHANGED <<service, timers, sessions, tabs, token, maxSize, cache, accessOrder, now, log, accessLog, disturbed, refused>>

\* getObject from the issue r it resolved (number k) to its next await
Accept(c, fr, r, k) ==
    IF r.body = EmptyText THEN [c |-> c, fr |-> Done(fr, "InvalidIssue")]
    ELSE IF ~ParseOk(r.body) THEN [c |-> c, fr |-> Done(fr, "DecodeError")]
    ELSE [c |-> set(c, fr.id, k, [createdAt |-> r.created_at, updatedAt |-> r.updated_at]),
          fr |-> Send([fr EXCEPT !.number = k, !.data = JSONparse(r.body)], "g_version")]

\* getObject(e) up to its first await: the cache lookup, then the fetch by number
\* or the label query
BeginGet(c, fr) ==
    LET g == get(c, fr.id)
    IN  IF g.val # 0
        THEN [c |-> g.c, fr |-> Send([fr EXCEPT !.number = g.val], "g_fetch")]
        ELSE [c |-> g.c, fr |-> Send(fr, "g_query")]

\* the continuation of call p after the response it waited for
Continue(c, fr) ==
    CASE fr.pc = "u_query" ->
           IF fr.resp.nums = <<>> THEN [c |-> c, fr |-> Done(fr, "NotFound")]
           ELSE [c |-> c,
                 fr |-> Send([fr EXCEPT !.n = fr.resp.nums[1],
                                        !.payload = createCommentPayload(fr.arg, fr.resp.nums[1],
                                                                         Undefined)],
                             "u_comment")]
      [] fr.pc = "u_comment" -> [c |-> c, fr |-> Send(fr, "u_open")]
      [] fr.pc = "u_open" -> BeginGet(c, fr)
      [] fr.pc = "g_fetch" ->
           IF fr.resp.snap # <<>> /\ _verifyIssueLabels(fr.resp.snap[1], fr.id)
           THEN Accept(c, fr, fr.resp.snap[1], fr.number)
           ELSE [c |-> remove(c, fr.id), fr |-> Send([fr EXCEPT !.number = 0], "g_query")]
      [] fr.pc = "g_query" ->
           IF fr.resp.nums = <<>> THEN [c |-> c, fr |-> Done(fr, "NotFound")]
           ELSE Accept(c, fr, fr.resp.snap[1], fr.resp.nums[1])
      [] fr.pc = "g_version" ->
           [c |-> c, fr |-> [Done(fr, "ok") EXCEPT !.version = fr.resp.count + 1]]

Resume(p) ==
    /\ calls.frame[p].ph = "ready"
    /\ \E res \in {Continue(ThisCache, calls.frame[p])} :
          /\ cache' = res.c.cache
          /\ accessOrder' = res.c.accessOrder
          /\ calls' = SetFrame(p, res.fr)
    /\ ret' = StepRet
    /\ UNCHANGED <<service, timers, sessions, tabs, token, maxSize, issues, now, log, accessLog, disturbed, refused>>

ConcInit ==
    /\ token = JStr("tok")
    /\ maxSize = 1
    /\ issues = <<PriorIssue(Str("a"), D0)>>
    /\ now = 0
    /\ \E c \in {[cache |-> <<>>, accessOrder |-> <<>>],
                  set([cache |-> <<>>, accessOrder |-> <<>>], Str("a"), 1,
                      [createdAt |-> 0, updatedAt |-> 0])} :
          cache = c.cache /\ accessOrder = c.accessOrder
    /\ ret = Ret0
    /\ log = [i \in Ids |-> <<>>]
    /\ accessLog = <<>>
    /\ disturbed = FALSE
    /\ refused = 0
    /\ calls = NoCalls
    /\ service = Service0(TRUE)
    /\ timers = <<>>
    /\ sessions = Sessions0
    /\ tabs = Tabs0

ConcNext ==
    \/ \E p \in Procs, t \in Data : UCall(p, Str("a"), t)
    \/ \E p \in Procs : Serve(p)
    \/ \E p \in Procs : Resume(p)
    \/ \E n \in 1..Len(issues) : Reconcile(n)
    \/ GetObject(Str("a"), NoFailure)

ConcSpec == ConcInit /\ [][ConcNext]_vars

----------------------------------------------------------------------------
(* Specification of listing: the tracker holds any issues of the kinds that *)
(* exist (good, archived, without UID label, with a body that is not JSON,  *)
(* open; several issues may carry the same id), and the client lists them   *)
(* while the transport may refuse a request                                 *)

MaxListed == 2
Stamps == {0, 1, 2}
Kinds == {"good", "archived", "nouid", "notjson", "open"}

ListedIssue(e, kind, stamp) ==
    [title |-> Title(e),
     body |-> IF kind = "notjson" THEN NotJson
              ELSE JSONstringify(IF stamp = 0 THEN D0 ELSE D1),
     labels |-> {GH_STORE, baseLabel}
                  \cup (IF kind = "nouid" THEN {} ELSE {IdLabel(e)})
                  \cup (IF kind = "archived" THEN {ARCHIVED} ELSE {}),
     state |-> IF kind = "open" THEN "open" ELSE "closed",
     comments |-> <<>>, created_at |-> 0, updated_at |-> stamp]

ListedIssues == {ListedIssue(e, kind, stamp) : e \in Ids, kind \in Kinds, stamp \in Stamps}

ListInit ==
    /\ token = JStr("tok")
    /\ maxSize = MaxCacheSize
    /\ cache = <<>>
    /\ accessOrder = <<>>
    /\ issues \in UNION {[1..k -> ListedIssues] : k \in 0..MaxListed}
    /\ now = 2
    /\ ret = Ret0
    /\ log = [i \in Ids |-> <<>>]
    /\ accessLog = <<>>
    /\ disturbed = FALSE
    /\ refused = 0
    /\ calls = NoCalls
    /\ service = Service0(TRUE)
    /\ timers = <<>>
    /\ sessions = Sessions0
    /\ tabs = Tabs0

ListAll(f) ==
    \E res \in {listAll(issues, f)} :
        /\ f.at <= res.nreq
        /\ ret' = [Ret0 EXCEPT !.op = "listAll", !.status = res.status, !.code = res.code,
                               !.nreq = res.nreq, !.entries = res.entries,
                               !.refusedAt = f.at, !.refusedCode = f.code]
        /\ UNCHANGED <<service, timers, sessions, tabs, calls, token, maxSize, cache, accessOrder, issues, now, log, accessLog,
                       disturbed, refused>>

ListUpdatedSince(e, loose, f) ==
    \E res \in {listUpdatedSince(issues, e, loose, f)} :
        /\ f.at <= res.nreq
        /\ ret' = [Ret0 EXCEPT !.op = "listUpdatedSince", !.status = res.status,
                               !.code = res.code, !.nreq = res.nreq,
                               !.entries = res.entries, !.since = e,
                               !.refusedAt = f.at, !.refusedCode = f.code]
        /\ UNCHANGED <<service, timers, sessions, tabs, calls, token, maxSize, cache, accessOrder, issues, now, log, accessLog,
                       disturbed, refused>>

ListNext ==
    \/ \E f \in Failures : ListAll(f)
    \/ \E e \in Stamps, loose \in BOOLEAN, f \in Failures : ListUpdatedSince(e, loose, f)

ListSpec == ListInit /\ [][ListNext]_vars

----------------------------------------------------------------------------
(* Specification of history decoding: the issue of object "a" carries any   *)
(* comments of the encodings that exist, and getObjectHistory reads them    *)

CommentBodies ==
    { JSONstringify(Envelope(D0, 1, JStr("initial_state"), 0)),
      JSONstringify(Envelope(D1, 1, Undefined, 0)),
      JSONstringify(JObj([type |-> JStr("initial_state"), data |-> D0])),
      JSONstringify(D1),
      JSONstringify(JObj([type |-> JStr("note"), data |-> D0])),
      JSONstringify(JNull),
      JSONstringify(JNum(7)),
      JSONstringify(JStr("text")),
      JSONstringify(JArr(<<D0>>)),
      NotJson }

CommentLists == UNION {[1..k -> CommentBodies] : k \in 0..MaxHistLen}

IssueWith(e, bodies) ==
    [title |-> Title(e), body |-> JSONstringify(D0),
     labels |-> {GH_STORE, baseLabel, IdLabel(e)}, state |-> "closed",
     comments |-> [k \in 1..Len(bodies) |->
                      [id |-> CommentId(1, k), body |-> bodies[k],
                       reactions |-> {}, created_at |-> 0]],
     created_at |-> 0, updated_at |-> 0]

HistInit ==
    /\ token = JStr("tok")
    /\ maxSize = 1
    /\ cache = <<>>
    /\ accessOrder = <<>>
    /\ issues \in {<<IssueWith(Str("a"), b)>> : b \in CommentLists}
    /\ now = 0
    /\ ret = Ret0
    /\ log = [i \in Ids |-> <<>>]
    /\ accessLog = <<>>
    /\ disturbed = FALSE
    /\ refused = 0
    /\ calls = NoCalls
    /\ service = Service0(TRUE)
    /\ timers = <<>>
    /\ sessions = Sessions0
    /\ tabs = Tabs0

HistNext == \E e \in Ids, f \in Failures : GetObjectHistory(e, f)

HistSpec == HistInit /\ [][HistNext]_vars


----------------------------------------------------------------------------
(* SessionService (background script).  st = [service, timers, sessions].   *)
(* Times are in ms and pass in steps of HEARTBEAT_INTERVAL.  A session      *)
(* holds sinceHeartbeat = Date.now() - lastHeartbeatTime, which stops       *)
(* growing after MaxSilence steps.  startTime feeds only the elapsed-time   *)
(* fields of the session data; they are left out, as are session_id and    *)
(* the two timestamps.  serial numbers the sessions in the order they were  *)
(* started.                                                                 *)

HEARTBEAT_TIMEOUT == 15000
HEARTBEAT_INTERVAL == 5000
MaxSilence == 4
MaxHeartbeats == 2
MaxSessions == 2
MaxQueue == 2

Papers == [sourceId : SourceIds, paperId : PaperIds]
PaperKey(sourceId, paperId) == <<sourceId, ":", paperId>>

ThisService == [service |-> service, timers |-> timers, sessions |-> sessions]

clearTimeout(tm, id) == MapDelete(tm, id)

\* the id setTimeout returns: the least one that no pending timer has and that
\* is not the one returned before
NewTimerId(tm, last) ==
    CHOOSE i \in 1..(Cardinality(DOMAIN tm) + 2) :
        /\ i \notin DOMAIN tm \cup {last}
        /\ \A j \in 1..(i - 1) : j \in DOMAIN tm \cup {last}

scheduleTimeoutCheckMutant(st) ==
    LET id == NewTimerId(st.timers, st.service.timeoutId)
    IN  [st EXCEPT !.service.timeoutId = id,
                   !.timers = MapSet(st.timers, id, HEARTBEAT_TIMEOUT)]

scheduleTimeoutCheck(st) ==
    LET tm == IF st.service.timeoutId # 0
              THEN clearTimeout(st.timers, st.service.timeoutId)
              ELSE st.timers
        id == NewTimerId(tm, st.service.timeoutId)
    IN  [st EXCEPT !.service.timeoutId = id,
                   !.timers = MapSet(tm, id, HEARTBEAT_TIMEOUT)]

\* getPaperMetadata(sourceId, paperId): TRUE stands for the metadata stored
\* under the key, FALSE for undefined
getPaperMetadata(st, sourceId, paperId) ==
    PaperKey(sourceId, paperId) \in st.service.paperMetadata

getCurrentSession(st) ==
    IF st.service.activeSession = JNull
    THEN JNull
    ELSE [sourceId |-> st.service.activeSession.sourceId,
          paperId |-> st.service.activeSession.paperId]

endSession(st) ==
    IF st.service.activeSession = JNull
    THEN [st |-> st, val |-> JNull]
    ELSE LET a == st.service.activeSession
             tm == IF st.service.timeoutId # 0
                   THEN clearTimeout(st.timers, st.service.timeoutId)
                   ELSE st.timers
             sessionData ==
                 [t |-> "sessionData", source_id |-> a.sourceId, paper_id |-> a.paperId,
                  heartbeat_count |-> a.heartbeatCount,
                  duration_seconds |-> a.heartbeatCount * 5, serial |-> a.serial]
             handed ==
                 IF st.service.paperManager /\ a.heartbeatCount > 0
                 THEN Append(st.sessions.handed,
                             [sourceId |-> a.sourceId, paperId |-> a.paperId,
                              sessionData |-> sessionData,
                              metadata |-> getPaperMetadata(st, a.sourceId, a.paperId)])
                 ELSE st.sessions.handed
         IN  [st |-> [service |-> [st.service EXCEPT !.timeoutId = 0,
                                                     !.activeSession = JNull],
                      timers |-> tm,
                      sessions |-> [st.sessions EXCEPT
                                       !.ended = Append(@, sessionData),
                                       !.handed = handed]],
              val |-> sessionData]

startSession(st, sourceId, paperId, metadata) ==
    LET e == endSession(st).st
    IN  scheduleTimeoutCheck(
            [e EXCEPT !.service.activeSession =
                          [t |-> "session", sourceId |-> sourceId, paperId |-> paperId,
                           heartbeatCount |-> 0, sinceHeartbeat |-> 0,
                           serial |-> e.sessions.started + 1],
                      !.service.paperMetadata =
                          IF metadata THEN @ \cup {PaperKey(sourceId, paperId)} ELSE @,
                      !.sessions.started = @ + 1])

recordHeartbeat(st) ==
    IF st.service.activeSession = JNull
    THEN [st |-> st, val |-> FALSE]
    ELSE [st |-> scheduleTimeoutCheck(
                     [st EXCEPT !.service.activeSession.heartbeatCount = @ + 1,
                                !.service.activeSession.sinceHeartbeat = 0]),
          val |-> TRUE]

\* (now - lastTime) > this.HEARTBEAT_TIMEOUT
TimedOutMutant(a) == a.sinceHeartbeat >= HEARTBEAT_TIMEOUT
TimedOut(a) == a.sinceHeartbeat > HEARTBEAT_TIMEOUT

checkTimeout(st) ==
    IF st.service.activeSession = JNull
    THEN st
    ELSE IF TimedOut(st.service.activeSession)
         THEN endSession(st).st
         ELSE scheduleTimeoutCheck(st)

----------------------------------------------------------------------------
(* Specification of the session service: its methods are called, its timer  *)
(* fires when it is due or later, and time passes                           *)

SessionInit ==
    /\ token = JStr("tok")
    /\ maxSize = MaxCacheSize
    /\ cache = <<>>
    /\ accessOrder = <<>>
    /\ issues = <<>>
    /\ now = 0
    /\ ret = Ret0
    /\ log = [i \in Ids |-> <<>>]
    /\ accessLog = <<>>
    /\ disturbed = FALSE
    /\ refused = 0
    /\ calls = NoCalls
    /\ \E paperManager \in BOOLEAN : service = Service0(paperManager)
    /\ timers = <<>>
    /\ sessions = Sessions0
    /\ tabs = Tabs0

SetService(st) ==
    /\ service' = st.service
    /\ timers' = st.timers
    /\ sessions' = st.sessions

StoreUnchanged ==
    UNCHANGED <<token, maxSize, cache, accessOrder, issues, now, log, accessLog, disturbed,
                refused, calls>>

\* whether the active session can take one more heartbeat within the bound
CanBeat ==
    service.activeSession # JNull => service.activeSession.heartbeatCount < MaxHeartbeats

StartSession(p, metadata) ==
    /\ sessions.started < MaxSessions
    /\ SetService(startSession(ThisService, p.sourceId, p.paperId, metadata))
    /\ ret' = [Ret0 EXCEPT !.op = "startSession", !.paper = p]
    /\ UNCHANGED tabs
    /\ StoreUnchanged

RecordHeartbeat ==
    /\ CanBeat
    /\ \E res \in {recordHeartbeat(ThisService)} :
          /\ SetService(res.st)
          /\ ret' = [Ret0 EXCEPT !.op = "recordHeartbeat", !.returned = res.val]
    /\ UNCHANGED tabs
    /\ StoreUnchanged

EndSession ==
    /\ \E res \in {endSession(ThisService)} :
          /\ SetService(res.st)
          /\ ret' = [Ret0 EXCEPT !.op = "endSession", !.returned = res.val]
    /\ UNCHANGED tabs
    /\ StoreUnchanged

\* a timer that is due runs its callback, checkTimeout, and is pending no more
TimerFire(id) ==
    /\ id \in DOMAIN timers
    /\ timers[id] = 0
    /\ SetService(checkTimeout([ThisService EXCEPT !.timers = clearTimeout(timers, id)]))
    /\ ret' = [Ret0 EXCEPT !.op = "checkTimeout"]
    /\ UNCHANGED tabs
    /\ StoreUnchanged

Elapse(ms) ==
    IF ms + HEARTBEAT_INTERVAL <= MaxSilence * HEARTBEAT_INTERVAL
    THEN ms + HEARTBEAT_INTERVAL
    ELSE ms

Advance ==
    /\ timers' = [i \in DOMAIN timers |->
                     IF timers[i] > HEARTBEAT_INTERVAL THEN timers[i] - HEARTBEAT_INTERVAL ELSE 0]
    /\ service' = IF service.activeSession = JNull
                  THEN service
                  ELSE [service EXCEPT !.activeSession.sinceHeartbeat = Elapse(@)]
    /\ ret' = [Ret0 EXCEPT !.op = "advance"]
    /\ UNCHANGED <<sessions, tabs>>
    /\ StoreUnchanged

SessionNext ==
    \/ \E p \in Papers, metadata \in BOOLEAN : StartSession(p, metadata)
    \/ RecordHeartbeat
    \/ EndSession
    \/ \E id \in DOMAIN timers : TimerFire(id)
    \/ Advance

SessionSpec == SessionInit /\ [][SessionNext]_vars

\* The same, with the event loop and the clock doing their part: a timer that
\* is due does fire and time does pass.  Nothing obliges anyone to call the
\* service
SessionLiveSpec ==
    /\ SessionInit
    /\ [][SessionNext]_vars
    /\ WF_vars(\E id \in DOMAIN timers : TimerFire(id))
    /\ WF_vars(Advance)

----------------------------------------------------------------------------
(* The content script of a tab and the message listener of the background  *)
(* script.  T = [tab, msgs, responses]; tab t shows the page of one paper.  *)

TabPaper(t) == [sourceId |-> "arxiv", paperId |-> IF t = 1 THEN "1" ELSE "2"]

Message(type, p) == [type |-> type, sourceId |-> p.sourceId, paperId |-> p.paperId]

\* chrome.runtime.sendMessage from tab t
sendMessage(T, t, m) == [T EXCEPT !.msgs[t] = Append(@, m)]

stopHeartbeat(T, t) == [T EXCEPT !.tab[t].heartbeatInterval = FALSE]

startSessionTracking(T, t, p) ==
    LET T1 == stopHeartbeat(T, t)
    IN  IF ~T1.tab[t].isTabVisible
        THEN T1
        ELSE sendMessage([T1 EXCEPT !.tab[t].currentSession = p], t,
                         Message("startSession", p))

\* the callback of the startSession message calls it on { success: true }
startHeartbeat(T, t) ==
    IF T.tab[t].currentSession = JNull
    THEN T
    ELSE [stopHeartbeat(T, t) EXCEPT !.tab[t].heartbeatInterval = TRUE]

endCurrentSession(T, t) ==
    IF T.tab[t].currentSession = JNull
    THEN T
    ELSE [sendMessage(stopHeartbeat(T, t), t,
                      Message("endSession", T.tab[t].currentSession))
            EXCEPT !.tab[t].currentSession = JNull]

\* the source of the page extracts the metadata of the paper the tab shows
processCurrentPage(T, t) ==
    LET T1 == sendMessage(T, t, Message("paperMetadata", TabPaper(t)))
    IN  IF T1.tab[t].isTabVisible
        THEN startSessionTracking(T1, t, TabPaper(t))
        ELSE T1

\* the body shared by the focus listener and the visibilitychange listener
\* when the tab has become visible
restartSession(T, t) ==
    IF T.tab[t].currentSession # JNull
    THEN startSessionTracking(T, t, T.tab[t].currentSession)
    ELSE processCurrentPage(T, t)

storePaperMetadata(st, p) ==
    [st EXCEPT !.service.paperMetadata = @ \cup {PaperKey(p.sourceId, p.paperId)}]

handleStartSession(st, sourceId, paperId) ==
    startSession(st, sourceId, paperId, getPaperMetadata(st, sourceId, paperId))

handleSessionHeartbeat(st) == recordHeartbeat(st).st

handleEndSession(st) ==
    IF getCurrentSession(st) # JNull THEN endSession(st).st ELSE st

----------------------------------------------------------------------------
(* Specification of session tracking across tabs: the content scripts react *)
(* to page loads, focus, blur and visibility changes and to their heartbeat *)
(* interval, the background script receives their messages, each tab's in   *)
(* the order it sent them, its timer fires and time passes                  *)

\* tab t has room for k more messages in flight
Room(t, k) == Len(tabs.msgs[t]) + k <= MaxQueue

TabStep(op, t) ==
    /\ ret' = [Ret0 EXCEPT !.op = op, !.tab = t]
    /\ UNCHANGED <<service, timers, sessions>>
    /\ StoreUnchanged

ProcessCurrentPage(t) ==
    /\ Room(t, 2)
    /\ tabs' = processCurrentPage(tabs, t)
    /\ TabStep("processCurrentPage", t)

VisibilityChange(t) ==
    /\ Room(t, 2)
    /\ \E T \in {[tabs EXCEPT !.tab[t].isTabVisible = ~@]} :
          tabs' = IF T.tab[t].isTabVisible
                  THEN restartSession(T, t)
                  ELSE endCurrentSession(T, t)
    /\ TabStep("visibilitychange", t)

Focus(t) ==
    /\ Room(t, 2)
    /\ tabs.tab[t].isTabVisible
    /\ tabs' = restartSession(tabs, t)
    /\ TabStep("focus", t)

\* the blur listener; the beforeunload listener does the same
Blur(t) ==
    /\ Room(t, 1)
    /\ tabs.tab[t].currentSession # JNull
    /\ tabs' = endCurrentSession(tabs, t)
    /\ TabStep("blur", t)

\* the callback of setInterval
Beat(t) ==
    /\ Room(t, 1)
    /\ tabs.tab[t].heartbeatInterval
    /\ tabs.tab[t].currentSession # JNull
    /\ tabs' = sendMessage(tabs, t, Message("sessionHeartbeat", tabs.tab[t].currentSession))
    /\ TabStep("heartbeat", t)

\* the response to a startSession message arrives
Response(t) ==
    /\ tabs.responses[t] > 0
    /\ tabs' = startHeartbeat([tabs EXCEPT !.responses[t] = @ - 1], t)
    /\ TabStep("response", t)

\* chrome.runtime.onMessage of the background script takes the next message of tab t
Receive(t) ==
    /\ tabs.msgs[t] # <<>>
    /\ \E m \in {Head(tabs.msgs[t])} :
          /\ m.type = "startSession" => sessions.started < MaxSessions
          /\ m.type = "sessionHeartbeat" => CanBeat
          /\ SetService(
                 CASE m.type = "paperMetadata" -> storePaperMetadata(ThisService, m)
                   [] m.type = "startSession" ->
                        handleStartSession(ThisService, m.sourceId, m.paperId)
                   [] m.type = "sessionHeartbeat" -> handleSessionHeartbeat(ThisService)
                   [] OTHER -> handleEndSession(ThisService))
          /\ tabs' = [tabs EXCEPT !.msgs[t] = Tail(@),
                                  !.responses[t] =
                                      IF m.type = "startSession" THEN @ + 1 ELSE @]
          /\ ret' = [Ret0 EXCEPT !.op = m.type, !.tab = t,
                                 !.paper = [sourceId |-> m.sourceId, paperId |-> m.paperId]]
    /\ StoreUnchanged

TabInit ==
    /\ SessionInit
    /\ service.paperManager

TabNext ==
    \/ \E t \in TabIds : ProcessCurrentPage(t)
    \/ \E t \in TabIds : VisibilityChange(t)
    \/ \E t \in TabIds : Focus(t)
    \/ \E t \in TabIds : Blur(t)
    \/ \E t \in TabIds : Beat(t)
    \/ \E t \in TabIds : Response(t)
    \/ \E t \in TabIds : Receive(t)
    \/ \E id \in DOMAIN timers : TimerFire(id)
    \/ Advance

TabSpec == TabInit /\ [][TabNext]_vars

----------------------------------------------------------------------------
(* The claims *)

Ok(op) == ret.op = op /\ ret.status = "ok"

\* C1: when createObject(id, d) succeeds and getObject(id) is the very next step,
\* getObject returns data equal to d and version 1.
C1_ReadAfterCreate ==
    (ret.op = "getObject" /\ ret.justCreated # NoData /\ ret.status # "TransportError")
        => (ret.status = "ok" /\ ret.data = ret.justCreated /\ ret.version = 1)

\* C2: the versions returned by createObject and by the successful updateObject
\* calls that follow it on the same id are 1, 2, 3, ... without a gap.
C2_VersionSequence ==
    \A e \in Ids : \A i \in 1..Len(log[e]) : log[e][i].v = i

\* C3: every Stored Object an operation returns has version = number of comments
\* of its backing issue, at the moment the operation returns, plus one.
C3_VersionIsCommentsPlusOne ==
    (ret.op \in {"createObject", "getObject", "updateObject"} /\ ret.status = "ok")
        => ret.version = Len(issues[ret.issueNumber].comments) + 1

\* C4: when the cache maps id to an issue whose labels do not include the ID label
\* of id, getObject(id) does not return that issue: it drops the entry and answers
\* from the label query (an issue that carries the ID label) or with NotFound.
C4_MismatchRecovery ==
    (ret.op = "getObject" /\ ret.value # 0
       /\ IdLabel(ret.id) \notin issues[ret.value].labels)
        => /\ ret.status = "ok" =>
                (ret.issueNumber # ret.value
                   /\ IdLabel(ret.id) \in issues[ret.issueNumber].labels)
           /\ ret.status = "NotFound" => ret.id \notin DOMAIN cache

\* C5: after createObject(id, d0), updateObject(id, d1), updateObject(id, d2), all
\* successful, getObject(id) and the last updateObject return data d2.
C5_LastUpdateWins ==
    (ret.op \in {"getObject", "updateObject"} /\ ret.status = "ok"
       /\ Len(log[ret.id]) = 3)
        => ret.data = log[ret.id][3].d

\* C6: after createObject(id, d0) and successful updateObject calls on id, and no
\* other writer on the issue, getObjectHistory(id) returns one entry per write, of
\* types initial_state, update, update, .. and data d0, d1, d2, .. in that order
\* (3 entries after two updates).
C6_HistoryOfWrites ==
    (Ok("getObjectHistory") /\ Len(log[ret.id]) > 0)
        => /\ Len(ret.hist) = Len(log[ret.id])
           /\ \A i \in 1..Len(ret.hist) :
                 /\ ret.hist[i].type = IF i = 1 THEN JStr("initial_state") ELSE JStr("update")
                 /\ ret.hist[i].data = log[ret.id][i].d

C6_Witness ==
    /\ Ok("getObjectHistory")
    /\ Len(log[ret.id]) = 3
    /\ Len(ret.hist) = 3
    /\ log[ret.id][1].d # log[ret.id][2].d

\* C7: from an empty cache with maxSize >= 1 and no TTL eviction, remove or clear,
\* once maxSize or more distinct ids have been set the cache holds exactly maxSize
\* entries, and they are the maxSize most recently accessed ids.
Top(al, k) == {al[i] : i \in 1..k}

C7_CacheBound ==
    (maxSize >= 1 /\ ~disturbed /\ Len(accessLog) >= maxSize)
        => /\ Cardinality(DOMAIN cache) = maxSize
           /\ DOMAIN cache = Top(accessLog, maxSize)

\* C8: get(id) on an entry last accessed more than ttl ago reports it absent and
\* removes it; on an entry of age at most ttl it returns the issue number and
\* resets lastAccessed to the current time.
C8_TtlExpiry ==
    ret.op = "cache.get"
        => /\ ret.age > TTL => (ret.value = 0 /\ ret.id \notin DOMAIN cache)
           /\ ret.age \in 0..TTL =>
                 /\ ret.id \in DOMAIN cache
                 /\ ret.value = cache[ret.id].issueNumber
                 /\ cache[ret.id].lastAccessed = now
                 /\ accessOrder[1] = ret.id

C8_Witness ==
    /\ ret.op = "cache.get"
    /\ ret.age > TTL
    /\ ret.value = 0
    /\ ret.id \notin DOMAIN cache

\* C9: getObjectHistory decodes every comment whose body is JSON to an entry:
\* (a) an envelope with _data gives type = its type field, "update" when absent,
\* and data = _data; (b) a bare object of type "initial_state" with a data field
\* gives type "initial_state" and data = that field; (c) any other JSON value gives
\* type "update" and the value itself as data.
ClaimedEntry(n) ==
    IF In("_data", n)
    THEN [type |-> IF In("type", n) THEN n.f.type ELSE JStr("update"), data |-> n.f._data]
    ELSE IF In("type", n) /\ n.f.type = JStr("initial_state") /\ In("data", n)
    THEN [type |-> JStr("initial_state"), data |-> n.f.data]
    ELSE [type |-> JStr("update"), data |-> n]

RECURSIVE ClaimedHistory(_)
ClaimedHistory(s) ==
    IF s = <<>> THEN <<>>
    ELSE IF ~ParseOk(Head(s).body) THEN ClaimedHistory(Tail(s))
    ELSE <<ClaimedEntry(JSONparse(Head(s).body))>> \o ClaimedHistory(Tail(s))

C9_DecodeEncodings ==
    Ok("getObjectHistory")
        => [i \in 1..Len(ret.hist) |-> [type |-> ret.hist[i].type, data |-> ret.hist[i].data]]
               = ClaimedHistory(issues[ret.issueNumber].comments)

\* C10: without a write credential createObject and updateObject fail with
\* AuthRequired before any request: the tracker and the cache are unchanged.
NoCredential == token \in {JNull, Undefined, JStr("")}

C10_AuthRequired ==
    [][(NoCredential /\ ret'.op \in {"createObject", "updateObject"})
          => /\ ret'.status = "AuthRequired"
             /\ ret'.nreq = 0
             /\ issues' = issues
             /\ cache' = cache
             /\ accessOrder' = accessOrder]_vars

C10_Witness ==
    /\ NoCredential
    /\ ret.op \in {"createObject", "updateObject"}
    /\ ret.status = "AuthRequired"
    /\ issues # <<>>
    /\ cache # <<>>

\* C11: isPublic() is true exactly when no write credential is configured: for every
\* token the client can be constructed with, createObject and updateObject are
\* rejected with AuthRequired exactly when isPublic() is true.
C11_PublicAgreesWithGate ==
    ret.op \in {"createObject", "updateObject"}
        => (ret.status = "AuthRequired" <=> isPublic)

\* C12: when no issue answers the label query of id, getObject(id) and
\* updateObject(id, d) fail with NotFound, and updateObject posts no comment and
\* changes no issue state.
Carries(iss, labels, states) ==
    {n \in 1..Len(iss) : labels \subseteq iss[n].labels /\ iss[n].state \in states}

C12_NotFound ==
    [][/\ (ret'.op = "getObject" /\ ret'.queried /\ ret'.refusedAt = 0
            /\ Carries(issues, {GH_STORE, baseLabel, IdLabel(ret'.id)}, {"closed"}) = {})
           => (ret'.status = "NotFound" /\ issues' = issues)
       /\ (ret'.op = "updateObject" /\ ~NoCredential /\ ret'.refusedAt = 0
            /\ Carries(issues, {baseLabel, IdLabel(ret'.id)}, {"open", "closed"}) = {})
           => (ret'.status = "NotFound" /\ ret'.nreq = 1 /\ issues' = issues)]_vars

C12_Witness ==
    /\ ret.op = "updateObject"
    /\ ret.status = "NotFound"
    /\ ~NoCredential
    /\ issues # <<>>
    /\ \E n \in 1..Len(issues) : issues[n].state = "open"

\* C13: in getObject a non-2xx answer to any request of the operation (the fetch by
\* number on a cache hit, the label query, the comment list read for the version)
\* makes getObject fail with a TransportError carrying that status; none is swallowed.
C13_TransportError ==
    (ret.op = "getObject" /\ ret.refusedAt # 0)
        => (ret.status = "TransportError" /\ ret.code = ret.refusedCode)

\* C14: when createObject fails after the issue was created and before it is closed
\* (at the initial-state comment, at either reaction or at the close request), the
\* tracker is left with the issue open and without any acknowledgement reaction,
\* and nothing is rolled back: the issue and the comment already posted remain.
LeftBehind(reacted) ==
    /\ ret.status = "TransportError"
    /\ ret.code = ret.refusedCode
    /\ ret.issueNumber = Len(issues)
    /\ issues[ret.issueNumber].state = "open"
    /\ Len(issues[ret.issueNumber].comments) = (IF ret.refusedAt = 2 THEN 0 ELSE 1)
    /\ \A k \in 1..Len(issues[ret.issueNumber].comments) :
           issues[ret.issueNumber].comments[k].reactions = reacted

C14_PartialCreate ==
    (ret.op = "createObject" /\ ret.refusedAt \in 2..5) => LeftBehind({})

\* C14 as amended: the open issue carries the reactions attached before the request
\* that failed: none when the comment or the first reaction failed, the processed
\* reaction when the second reaction failed, both when the close request failed.
C14_PartialCreateAmended ==
    (ret.op = "createObject" /\ ret.refusedAt \in 2..5)
        => LeftBehind(CASE ret.refusedAt \in {2, 3} -> {}
                        [] ret.refusedAt = 4 -> {"+1"}
                        [] ret.refusedAt = 5 -> {"+1", "rocket"})

C14_Witness ==
    /\ ret.op = "createObject"
    /\ ret.refusedAt = 5
    /\ ret.status = "TransportError"
    /\ Len(issues) = 2
    /\ issues[2].state = "open"
    /\ issues[2].comments[1].reactions = {"+1", "rocket"}

\* C15: createObject(id, d, extraLabels) works in this order: create the issue with
\* labels [gh-store, base label, UID label of id, ...extraLabels] and body d, cache
\* the issue number, post one initial_state comment, attach the processed reaction,
\* attach the initial-state reaction, close the issue.  When it returns, the issue
\* is closed and has exactly one comment, which carries both reactions, and the
\* Stored Object returned has version 1 and data d.  A call that the transport
\* stops at its k-th request shows the steps done before it, in that order.
StepsDone == IF ret.refusedAt = 0 THEN 5 ELSE ret.refusedAt - 1

C15_CreateSequence ==
    (ret.op = "createObject" /\ ~NoCredential /\ StepsDone >= 1)
        => LET n == Len(issues)
               issue == issues[n]
           IN  /\ issue.title = <<"Stored Object: ">> \o ret.id
               /\ issue.body = JSONstringify(ret.arg)
               /\ issue.labels = {Str("gh-store"), Str("stored-object"), Str("UID:") \o ret.id}
                                    \cup ret.extra
               /\ ret.id \in DOMAIN cache /\ cache[ret.id].issueNumber = n
               /\ Head(accessOrder) = ret.id
               /\ Len(issue.comments) = (IF StepsDone >= 2 THEN 1 ELSE 0)
               /\ StepsDone >= 2 =>
                     /\ issue.comments[1].body =
                            JSONstringify(Envelope(ret.arg, n, JStr("initial_state"), now))
                     /\ issue.comments[1].reactions =
                            (CASE StepsDone = 2 -> {}
                               [] StepsDone = 3 -> {"+1"}
                               [] StepsDone >= 4 -> {"+1", "rocket"})
               /\ issue.state = (IF StepsDone = 5 THEN "closed" ELSE "open")
               /\ StepsDone = 5 =>
                     /\ ret.status = "ok"
                     /\ ret.issueNumber = n
                     /\ ret.version = 1
                     /\ ret.data = ret.arg

C15_Witness ==
    /\ Ok("createObject")
    /\ ret.extra # {}
    /\ Len(issues) = 2
    /\ issues[1].state = "open"
    /\ issues[2].state = "closed"
    /\ issues[2].comments[1].reactions = {"+1", "rocket"}

\* C16: updateObject(id, d) on an existing object succeeds and returns a Stored
\* Object although the issue it has just reopened is not closed again yet: its
\* final getObject(id) finds id in the cache and reads the issue by number.  This
\* holds whatever the cache held for id before the call.
C16_UpdateSucceeds ==
    (ret.op = "updateObject" /\ ~NoCredential /\ ret.refusedAt = 0
       /\ Carries(issues, {baseLabel, IdLabel(ret.id)}, {"open", "closed"}) # {})
        => (ret.status = "ok" /\ ret.id \in DOMAIN cache
              /\ cache[ret.id].issueNumber = ret.issueNumber)

\* C17: a successful updateObject(id, d) changes the backing issue only by appending
\* one comment, a full snapshot of d with update_mode "append" and no type field,
\* and by setting its state to open; body, title, labels and the earlier comments
\* are as before, so the body is still the snapshot written by createObject.
UpdateComment(d, n) ==
    JObj([_data |-> d,
          _meta |-> JObj([client_version |-> JStr("0.11.1"), timestamp |-> JNum(now),
                          update_mode |-> JStr("append"), issue_number |-> JNum(n)])])

C17_UpdateFrame ==
    [][(ret'.op = "updateObject" /\ ret'.status = "ok")
          => \E n \in 1..Len(issues) :
             LET k == Len(issues[n].comments) + 1
             IN  /\ {baseLabel, Str("UID:") \o ret'.id} \subseteq issues[n].labels
                 /\ Len(issues') = Len(issues)
                 /\ \A m \in (1..Len(issues)) \ {n} : issues'[m] = issues[m]
                 /\ issues'[n].body = issues[n].body
                 /\ issues'[n].title = issues[n].title
                 /\ issues'[n].labels = issues[n].labels
                 /\ issues'[n].state = "open"
                 /\ Len(issues'[n].comments) = k
                 /\ SubSeq(issues'[n].comments, 1, k - 1) = issues[n].comments
                 /\ issues'[n].comments[k].body = JSONstringify(UpdateComment(ret'.arg, n))
                 /\ issues'[n].comments[k].reactions = {}
                 /\ JSONparse(issues'[n].body)
                       = Field(JSONparse(issues'[n].comments[1].body), "_data")]_vars

C17_Witness ==
    /\ Ok("updateObject")
    /\ Len(issues) = 2
    /\ Len(issues[ret.issueNumber].comments) = 2
    /\ issues[ret.issueNumber].comments[2].body
          = JSONstringify(UpdateComment(ret.arg, ret.issueNumber))
    /\ ret.arg # JSONparse(issues[ret.issueNumber].body)
    /\ issues[ret.issueNumber].state = "open"

\* C18: after every successful createObject(id, ..), getObject(id) or
\* updateObject(id, ..) the cache holds an entry for id with the issue number of the
\* Stored Object returned and lastAccessed refreshed; getObject consults the cache
\* before any request: on a hit it reads the issue by number and issues no query.
C18_CacheAfterSuccess ==
    /\ (ret.op \in {"createObject", "getObject", "updateObject"} /\ ret.status = "ok")
         => /\ ret.id \in DOMAIN cache
            /\ cache[ret.id].issueNumber = ret.issueNumber
            /\ cache[ret.id].lastAccessed = now
            /\ Head(accessOrder) = ret.id
    /\ (ret.op = "getObject" /\ ret.value # 0)
         => /\ ~ret.queried
            /\ ret.status = "ok"
            /\ ret.issueNumber = ret.value
            /\ ret.nreq = 2

C18_Witness ==
    /\ Ok("getObject")
    /\ ret.value # 0
    /\ now = MaxTime
    /\ issues[ret.issueNumber].state = "open"
    /\ issues[ret.issueNumber].created_at < now
    /\ cache[ret.id].lastAccessed = now

\* C19: listAll returns exactly one entry per object id among the closed issues
\* with the base label on the result page that are not labelled archived, carry a
\* UID label and have a body that parses as JSON; an issue whose labels give no id
\* or whose body does not parse is skipped, the other entries are not affected and
\* listAll does not fail.
IdOf(issue) ==
    Slice(CHOOSE l \in issue.labels : StartsWith(l, Str("UID:")), 1)

Listed(iss) ==
    {n \in 1..Len(iss) :
        /\ iss[n].state = "closed"
        /\ Str("stored-object") \in iss[n].labels
        /\ Str("archived") \notin iss[n].labels
        /\ \E l \in iss[n].labels : StartsWith(l, Str("UID:"))
        /\ iss[n].body.json}

C19_ListAll ==
    (ret.op = "listAll" /\ ret.refusedAt # 1)
        => /\ ret.status = "ok"
           /\ DOMAIN ret.entries = {IdOf(issues[n]) : n \in Listed(issues)}
           /\ \A e \in DOMAIN ret.entries :
                 LET n == ret.entries[e].meta.issueNumber
                 IN  /\ n \in Listed(issues)
                     /\ IdOf(issues[n]) = e
                     /\ ret.entries[e].meta.objectId = e
                     /\ ret.entries[e].data = issues[n].body.val

\* C20: every entry listUpdatedSince(t) returns has updatedAt strictly after t,
\* whatever the server lets through its since filter: an issue updated at t or
\* before t is never in the result; and the result is a subset of what listAll
\* returns on the same tracker state.
StrictlyAfter ==
    \A e \in DOMAIN ret.entries :
        /\ ret.entries[e].meta.updatedAt > ret.since
        /\ issues[ret.entries[e].meta.issueNumber].updated_at > ret.since

C20_UpdatedSince ==
    (ret.op = "listUpdatedSince" /\ ret.status = "ok")
        => /\ StrictlyAfter
           /\ \A e \in DOMAIN ret.entries :
                 /\ e \in DOMAIN listAll(issues, NoFailure).entries
                 /\ ret.entries[e] = listAll(issues, NoFailure).entries[e]

\* C21: getObjectHistory(id) returns one entry for every comment whose body is
\* well-formed JSON (the values null, a number, a string, an array included) and
\* none for a comment whose body is not JSON, in the order of the comments, each
\* entry with the id of its comment.
RECURSIVE WellFormedIds(_)
WellFormedIds(s) ==
    IF s = <<>> THEN <<>>
    ELSE IF Head(s).body.json THEN <<Head(s).id>> \o WellFormedIds(Tail(s))
    ELSE WellFormedIds(Tail(s))

C21_EntryPerComment ==
    Ok("getObjectHistory")
        => [i \in 1..Len(ret.hist) |-> ret.hist[i].commentId]
              = WellFormedIds(issues[ret.issueNumber].comments)

\* C22: when two updateObject calls on the same existing id overlap, both update
\* comments are appended to the log of the backing issue, none lost or merged, in
\* the order in which the server received the two comment requests, and the version
\* read after both have completed is two more than before.
LastOf(p) ==
    CHOOSE i \in 0..Len(calls.order) :
        /\ i # 0 => calls.order[i].p = p
        /\ \A j \in (i + 1)..Len(calls.order) : calls.order[j].p # p

C22_OverlappingUpdates ==
    /\ Len(issues[1].comments) = 1 + Len(calls.order)
    /\ \A i \in 1..Len(calls.order) :
          /\ calls.order[i].n = 1
          /\ issues[1].comments[1 + i].body
                = JSONstringify(UpdateComment(calls.order[i].arg, 1))
    /\ (ret.op = "getObject" /\ ret.status = "ok" /\ \A p \in Procs : ~Running(p))
          => ret.version = 2 + Len(calls.order)
    /\ \A p \in Procs :
          (calls.frame[p].pc = "done" /\ calls.frame[p].status = "ok")
             => /\ LastOf(p) # 0
                /\ calls.frame[p].version >= 2 + LastOf(p)
                /\ calls.frame[p].version <= 2 + Len(calls.order)

C22_Witness ==
    /\ ret.op = "getObject" /\ ret.status = "ok" /\ ret.version = 4
    /\ \A p \in Procs : calls.frame[p].pc = "done" /\ calls.frame[p].status = "ok"
    /\ Len(calls.order) = 2
    /\ calls.order[1].p = 2 /\ calls.order[2].p = 1
    /\ calls.order[1].overlap /\ calls.order[2].overlap
    /\ calls.order[1].arg # calls.order[2].arg
    /\ calls.frame[1].version = 4 /\ calls.frame[2].version = 3

\* the labels of the issue the cache named when getObject was called
CachedLabels == issues[ret.value].labels

\* C23: every getObject call sends at most one request for the issue by number,
\* at most one label query and at most one request for the comments; a call
\* that finds a number in the cache and gets an issue that carries neither the
\* base label nor the ID label sends exactly one label query after its one fetch
C23_BoundedRequests ==
    ret.op = "getObject" =>
        /\ ret.nfetch <= 1
        /\ ret.nquery <= 1
        /\ ret.ncomments <= 1
        /\ ret.nreq = ret.nfetch + ret.nquery + ret.ncomments
        /\ (ret.value # 0 /\ ret.refusedAt # 1
               /\ CachedLabels \cap {baseLabel, IdLabel(ret.id)} = {})
              => (ret.nfetch = 1 /\ ret.nquery = 1)

\* a read whose cached issue failed verification, fell back to the label query,
\* found the object's other issue and read its comments: three requests
C23_Witness ==
    /\ ret.op = "getObject"
    /\ ret.status = "ok"
    /\ ret.value # 0
    /\ CachedLabels \cap {baseLabel, IdLabel(ret.id)} = {}
    /\ ret.issueNumber # ret.value
    /\ ret.nfetch = 1 /\ ret.nquery = 1 /\ ret.ncomments = 1

\* C24: updateObject changes the state of an issue only after its update
\* comment is in the log: a call whose comment request is refused fails and
\* leaves every issue as it was, and a call that changed an issue at all has
\* appended its comment to that issue, so an issue it opened carries the comment
C24_OpenAfterComment ==
    [][ret'.op = "updateObject"
          => /\ ret'.refusedAt = 2
                   => (ret'.status = "TransportError" /\ issues' = issues)
             /\ Len(issues') = Len(issues)
             /\ \A n \in 1..Len(issues) :
                   issues'[n] # issues[n]
                      => LET k == Len(issues[n].comments) + 1
                         IN  /\ Len(issues'[n].comments) = k
                             /\ SubSeq(issues'[n].comments, 1, k - 1) = issues[n].comments
                             /\ issues'[n].comments[k].body
                                   = JSONstringify(UpdateComment(ret'.arg, n))
                             /\ issues'[n].state \in {issues[n].state, "open"}]_vars

\* an update whose comment request was refused, on a closed issue of the object
C24_Witness ==
    /\ ret.op = "updateObject"
    /\ ret.refusedAt = 2
    /\ ret.status = "TransportError"
    /\ ret.issueNumber # 0
    /\ issues[ret.issueNumber].state = "closed"
    /\ Len(issues[ret.issueNumber].comments) = 1

\* C25: set(id, ..) on a cache that holds maxSize entries evicts nothing when
\* id is among them (the same ids stay, only id's entry and the recency order
\* change) and evicts exactly the tail of the recency list when id is not;
\* set on a cache that holds fewer than maxSize entries evicts nothing
C25_SetEviction ==
    [][(ret'.op = "cache.set" /\ maxSize >= 1)
          => LET e == ret'.id
                 size == Cardinality(DOMAIN cache)
                 others(S) == \A k \in S \ {e} : cache'[k] = cache[k]
             IN  /\ (size = maxSize /\ e \in DOMAIN cache)
                       => /\ DOMAIN cache' = DOMAIN cache
                          /\ others(DOMAIN cache)
                          /\ accessOrder' = <<e>> \o removeFromAccessOrder(accessOrder, e)
                 /\ (size = maxSize /\ e \notin DOMAIN cache)
                       => /\ Len(accessOrder) > 0
                          /\ DOMAIN cache'
                                = (DOMAIN cache \ {accessOrder[Len(accessOrder)]}) \cup {e}
                          /\ Cardinality(DOMAIN cache') = maxSize
                          /\ others(DOMAIN cache')
                 /\ size < maxSize
                       => /\ DOMAIN cache' = DOMAIN cache \cup {e}
                          /\ others(DOMAIN cache)]_vars

\* C26: shouldRefresh(id, t) answers true exactly when the cache holds no
\* entry for id or t is strictly later than the entry's updatedAt, and it
\* changes neither the entries (their lastAccessed included) nor the recency order
C26_ShouldRefresh ==
    [][ret'.op = "cache.shouldRefresh"
          => /\ ret'.refresh
                   <=> (\/ ret'.id \notin DOMAIN cache
                        \/ ret'.observed > cache[ret'.id].updatedAt)
             /\ cache' = cache
             /\ accessOrder' = accessOrder]_vars

\* the answer for a timestamp equal to the entry's updatedAt is false, also for
\* an entry that get would report expired, and the entry stays as it was
C26_Witness ==
    /\ ret.op = "cache.shouldRefresh"
    /\ ret.id \in DOMAIN cache
    /\ ret.observed = cache[ret.id].updatedAt
    /\ ~ret.refresh
    /\ now - cache[ret.id].lastAccessed > TTL
    /\ Len(accessOrder) = 2 /\ accessOrder[2] = ret.id

\* C27: the verification of a fetched issue against id succeeds exactly when the
\* issue carries the base label or the ID label of id, either one alone
\* sufficing: a getObject that got its cached issue goes on with that issue,
\* without a label query, iff the issue carries one of the two labels
C27_VerifyLabels ==
    (ret.op = "getObject" /\ ret.value # 0 /\ ret.refusedAt # 1)
        => /\ (baseLabel \in CachedLabels \/ IdLabel(ret.id) \in CachedLabels)
                 => (ret.nquery = 0 /\ ret.issueNumber = ret.value)
           /\ (baseLabel \notin CachedLabels /\ IdLabel(ret.id) \notin CachedLabels)
                 => /\ ret.nquery = 1
                    /\ ret.issueNumber # ret.value
                    /\ (ret.id \in DOMAIN cache => cache[ret.id].issueNumber # ret.value)

\* the base label alone suffices: the cached issue carries the ID label of
\* another object, and the read returns it
C27_Witness ==
    /\ ret.op = "getObject"
    /\ ret.status = "ok"
    /\ ret.value # 0
    /\ IdLabel(ret.id) \notin CachedLabels
    /\ baseLabel \in CachedLabels
    /\ ret.nquery = 0
    /\ ret.issueNumber = ret.value

\* what a read reports: the error kind, or the Stored Object (its meta is taken
\* from the issue and the version)
Report(res) ==
    IF res.status = "ok"
    THEN [status |-> "ok", issueNumber |-> res.issueNumber, version |-> res.version,
          data |-> res.data]
    ELSE [status |-> res.status]

\* C28: the cache is transparent to reads: on the same tracker state, getObject
\* of an id the cache holds and getObject of that id on a client with an empty
\* cache fail with the same error kind or return equal Stored Objects, also
\* while the issue is open
C28_CacheTransparent ==
    \A e \in DOMAIN cache :
        get(ThisCache, e).val # 0
            => Report(getObject(issues, ThisCache, e, NoFailure, 0))
                  = Report(getObject(issues, clear(ThisCache), e, NoFailure, 0))

\* the ID labels of an issue
UidLabels(issue) == {l \in issue.labels : l # baseLabel /\ StartsWith(l, uidPrefix)}

\* C29: whatever sequence of getOrCreatePaper and getOrCreateInteractionLog
\* calls was made, with the cache lost in between and the reconciler not yet
\* run, no two issues of the tracker carry the ID label of the same object
C29_OneIssuePerId ==
    \A n, m \in 1..Len(issues) :
        n # m => UidLabels(issues[n]) \cap UidLabels(issues[m]) = {}

\* the issue getObject(e) resolves on a cache miss, the issues updateObject(e, ..)
\* changes, and the issue getObjectHistory(e) reads (0: none)
ReadIssue(e) == getObject(issues, clear(ThisCache), e, NoFailure, 0).issueNumber
UpdatedIssues(e) ==
    {n \in 1..Len(issues) : updateObject(issues, ThisCache, e, D0, NoFailure).iss[n] # issues[n]}
HistoryIssue(e) == getObjectHistory(issues, e, NoFailure).issueNumber

\* C30: on one tracker state getObject (cache miss), updateObject and
\* getObjectHistory resolve the same issue of an id: a closed issue that
\* updateObject or getObjectHistory finds is the one getObject finds, and an
\* issue that getObject finds is the one the other two operate on
C30_SameIssue ==
    \A e \in Ids :
        /\ (HistoryIssue(e) # 0 /\ issues[HistoryIssue(e)].state = "closed")
              => ReadIssue(e) = HistoryIssue(e)
        /\ \A n \in UpdatedIssues(e) : issues[n].state = "closed" => ReadIssue(e) = n
        /\ ReadIssue(e) # 0
              => /\ HistoryIssue(e) = ReadIssue(e)
                 /\ ~NoToken => UpdatedIssues(e) = {ReadIssue(e)}

\* C31: a getObject that ends in NotFound leaves no cache entry for its id, and
\* a getObject that drops the entry of its id, because the fetch by the cached
\* number was refused or the fetched issue failed verification, changes the
\* entry of no other id
C31_InvalidateOnlyOwn ==
    [][ret'.op = "getObject"
          => /\ ret'.status = "NotFound" => ret'.id \notin DOMAIN cache'
             /\ (/\ ret'.value # 0
                 /\ \/ ret'.refusedAt = 1
                    \/ issues[ret'.value].labels \cap {baseLabel, IdLabel(ret'.id)} = {})
                   => /\ DOMAIN cache' \ {ret'.id} = DOMAIN cache \ {ret'.id}
                      /\ \A k \in DOMAIN cache \ {ret'.id} : cache'[k] = cache[k]]_vars

\* C32: a createObject that fails, at whichever request, leaves the cache as it
\* was before the call: no entry for its id points at the issue it left behind
C32_FailedCreateKeepsCache ==
    [][(ret'.op = "createObject" /\ ret'.status # "ok")
          => /\ cache' = cache
             /\ accessOrder' = accessOrder]_vars

\* the issues that carry the ID label of e
Backing(e) == {n \in 1..Len(issues) : IdLabel(e) \in issues[n].labels}

\* C33: for an object with a single backing issue, closed and not archived, the
\* entry listAll returns under its id is the Stored Object getObject returns
\* for that id on the same tracker state: the same data and the same meta
C33_ListAgreesWithGet ==
    (ret.op = "listAll" /\ ret.status = "ok" /\ ret.refusedAt = 0)
        => \A e \in DOMAIN ret.entries :
              Cardinality(Backing(e)) = 1
                 => LET g == getObject(issues, ThisCache, e, NoFailure, 0)
                    IN  /\ g.status = "ok"
                        /\ ret.entries[e] = StoredObject(issues, e, g)

\* the interactions passed to the addInteraction calls on log object e that
\* completed: push puts the interaction at the end of what the call wrote
Added(e) ==
    {LET a == log[e][i].d.f.interactions.f IN a[Len(a)] : i \in 1..Len(log[e])}

\* the interactions in the data of the last comment of issue n
LastWritten(n) ==
    LET c == issues[n].comments
        a == Field(Field(JSONparse(c[Len(c)].body), "_data"), "interactions")
    IN  IF a.t = "arr" THEN {a.f[i] : i \in 1..Len(a.f)} ELSE {}

\* C34: no interaction is lost: the data of the last update comment of the
\* interaction log of a paper contains every interaction that was passed to an
\* addInteraction call that completed
C34_NoInteractionLost ==
    \A e \in LogIds :
        log[e] # <<>>
            => \E n \in Backing(e) :
                  /\ issues[n].comments # <<>>
                  /\ Added(e) \subseteq LastWritten(n)

\* the ids in the recency list
InAccessOrder == {accessOrder[i] : i \in 1..Len(accessOrder)}

C38_SizeBounded ==
    /\ Cardinality(DOMAIN cache) <= maxSize
    /\ getStats(ThisCache).size = Cardinality(DOMAIN cache)

\* C39: one session at most is active (every session started but the active
\* one has been ended), one timer at most is pending, and none is pending and
\* timeoutId is null when no session is active; a startSession that finds a
\* session active ends it before the new one is active; a recordHeartbeat
\* that finds no session returns false and changes nothing
C39_OneSessionOneTimer ==
    /\ [](/\ sessions.started - Len(sessions.ended)
                = (IF service.activeSession = JNull THEN 0 ELSE 1)
          /\ Cardinality(DOMAIN timers) <= 1
          /\ service.activeSession = JNull
                => (service.timeoutId = 0 /\ DOMAIN timers = {}))
    /\ [][/\ (ret'.op = "startSession" /\ service.activeSession # JNull)
               => (/\ Len(sessions'.ended) = Len(sessions.ended) + 1
                   /\ sessions'.ended[Len(sessions'.ended)].serial
                         = service.activeSession.serial
                   /\ service'.activeSession # JNull
                   /\ service'.activeSession.serial # service.activeSession.serial)
          /\ (ret'.op = "recordHeartbeat" /\ service.activeSession = JNull)
               => (/\ ret'.returned = FALSE
                   /\ UNCHANGED <<service, timers, sessions>>)]_vars

\* a second startSession ended a session that had received heartbeats and
\* left one session and one timer
C39_Witness ==
    /\ ret.op = "startSession"
    /\ sessions.started = 2
    /\ Len(sessions.ended) = 1
    /\ sessions.ended[1].heartbeat_count > 0
    /\ Cardinality(DOMAIN timers) = 1

\* session n is active and its last heartbeat is more than HEARTBEAT_TIMEOUT ago
Silent(n) ==
    /\ service.activeSession # JNull
    /\ service.activeSession.serial = n
    /\ service.activeSession.sinceHeartbeat > HEARTBEAT_TIMEOUT

\* the calls of logReadingSession that were handed session n
HandedFor(n) ==
    {i \in 1..Len(sessions.handed) : sessions.handed[i].sessionData.serial = n}

\* a session the timeout check ends has had no heartbeat for more than
\* HEARTBEAT_TIMEOUT
EndedOnlyWhenSilent ==
    (ret'.op = "checkTimeout" /\ Len(sessions'.ended) > Len(sessions.ended))
        => service.activeSession.sinceHeartbeat > HEARTBEAT_TIMEOUT

\* C36, as stated: a session without a heartbeat for more than
\* HEARTBEAT_TIMEOUT is ended in the end, whether or not anyone calls the
\* service; the timeout check ends no session whose last heartbeat is at most
\* HEARTBEAT_TIMEOUT ago; every session ended with heartbeats is handed to
\* logReadingSession once, with duration_seconds = 5 * heartbeat_count, and
\* one ended without heartbeats is not handed
C36_TimeoutAndPersistence ==
    /\ \A n \in 1..MaxSessions : Silent(n) ~> ~Silent(n)
    /\ [][EndedOnlyWhenSilent]_vars
    /\ [](\A i \in 1..Len(sessions.ended) :
             LET d == sessions.ended[i]
             IN  /\ d.heartbeat_count > 0
                       => /\ Cardinality(HandedFor(d.serial)) = 1
                          /\ \A j \in HandedFor(d.serial) :
                                sessions.handed[j].sessionData.duration_seconds
                                    = 5 * d.heartbeat_count
                 /\ d.heartbeat_count = 0 => HandedFor(d.serial) = {})

\* C36, amended: the same, where a session ended with heartbeats is handed to
\* logReadingSession when the service was constructed with a paper manager,
\* and is handed to nobody when it was constructed with null
C36_TimeoutAndPersistenceWithManager ==
    /\ \A n \in 1..MaxSessions : Silent(n) ~> ~Silent(n)
    /\ [][EndedOnlyWhenSilent]_vars
    /\ [](\A i \in 1..Len(sessions.ended) :
             LET d == sessions.ended[i]
             IN  /\ (d.heartbeat_count > 0 /\ service.paperManager)
                       => /\ Cardinality(HandedFor(d.serial)) = 1
                          /\ \A j \in HandedFor(d.serial) :
                                sessions.handed[j].sessionData.duration_seconds
                                    = 5 * d.heartbeat_count
                 /\ (d.heartbeat_count = 0 \/ ~service.paperManager)
                       => HandedFor(d.serial) = {})

\* the timeout check ended a session that had received heartbeats and the
\* session was handed to logReadingSession
C36_Witness ==
    /\ ret.op = "checkTimeout"
    /\ service.activeSession = JNull
    /\ service.paperManager
    /\ Len(sessions.ended) = 1
    /\ sessions.ended[1].heartbeat_count = 2
    /\ Len(sessions.handed) = 1
    /\ sessions.handed[1].sessionData.duration_seconds = 10

\* C35: the background script, receiving a sessionHeartbeat or an endSession
\* message that names one paper while the active session belongs to another
\* paper, leaves that session as it is: its heartbeat count is not incremented
\* and it is not ended
C35_MessagesIsolatedPerPaper ==
    [][(/\ ret'.op \in {"sessionHeartbeat", "endSession"}
        /\ ret'.tab # 0
        /\ service.activeSession # JNull
        /\ <<service.activeSession.sourceId, service.activeSession.paperId>>
              # <<ret'.paper.sourceId, ret'.paper.paperId>>)
          => service'.activeSession = service.activeSession]_vars

====
